---- MODULE Spec2Model ----
(***************************************************************************)
(* A model of the Smart Semantic Pricing Engine (app/): the material       *)
(* ranker and its confidence engine (services/material_service.py), the    *)
(* task extractor and pricing calculator (services/pricing_service.py),    *)
(* the feedback learner (services/feedback_service.py) and the tables of   *)
(* database.py they read and write.                                        *)
(*                                                                         *)
(* Numbers.  Python floats are modelled as exact fixed-point integers:     *)
(*   - prices and costs before regional adjustment: cents (1/100);         *)
(*   - regional multipliers, VAT and margin rates: twentieths (1.15 is     *)
(*     23/20, 0.25 is 5/20), every configured rate is a multiple of 0.05;  *)
(*   - a regionally adjusted cost: 1/2000 (cents times twentieths);        *)
(*   - a margin-protected price and a total estimate: 1/40000;             *)
(*   - similarity and the sub-scores of the confidence engine: percent;    *)
(*   - a material's confidence score: 1/10000 (percent times a weight in   *)
(*     percent);                                                           *)
(*   - the confidence score of a task or a quote and the impact score of   *)
(*     a feedback: 1/10^7.                                                 *)
(* No operation below divides, except where noted, so sums and products    *)
(* are those of the real numbers the floats stand for.                     *)
(*                                                                         *)
(* Optional values.  None is the empty tuple, a present value v is <<v>>.  *)
(***************************************************************************)
EXTENDS Integers, Sequences, FiniteSets, TLC

VARIABLES
    confidence_weights, \* settings.confidence_weights as loaded (percent)
    materials,          \* table materials, in the order storage returns rows
    quotes,             \* table quotes
    tasks,              \* table tasks
    material_usage,     \* table material_usage
    feedback,           \* table feedback
    vendor_reliability, \* table vendor_reliability
    regional_pricing,   \* table regional_pricing
    response,           \* what the last call returned or raised
    embedding_service,  \* EmbeddingService: model, _model_loaded
    coroutines,         \* where each coroutine calling the embedder stands
    http                \* the last HTTP exchange of main.py

vars == <<confidence_weights, materials, quotes, tasks, material_usage,
          feedback, vendor_reliability, regional_pricing, response,
          embedding_service, coroutines, http>>

tables == <<quotes, tasks, material_usage, feedback, vendor_reliability,
            regional_pricing>>

embedder == <<embedding_service, coroutines>>

----------------------------------------------------------------------------
(* Python values *)

None == <<>>

Some(v) == <<v>>

\* bool(o) of an Optional[str]: None and "" are falsy
Truthy(o) == o # None /\ o[1] # ""

\* bool(o) of an Optional[int]: None and 0 are falsy
TruthyInt(o) == o # None /\ o[1] # 0

Min(a, b) == IF a <= b THEN a ELSE b

Max(a, b) == IF a >= b THEN a ELSE b

UpperChars == "ABCDEFGHIJKLMNOPQRSTUVWXYZ"

LowerChars == "abcdefghijklmnopqrstuvwxyz"

\* the lower-case letter of each upper-case letter
LowerOf ==
    [c \in {SubSeq(UpperChars, i, i) : i \in 1..Len(UpperChars)} |->
        LET i == CHOOSE j \in 1..Len(UpperChars) : SubSeq(UpperChars, j, j) = c
        IN  SubSeq(LowerChars, i, i)]

LowerChar(c) == IF c \in DOMAIN LowerOf THEN LowerOf[c] ELSE c

RECURSIVE Lower(_)
\* str.lower()
Lower(s) ==
    IF s = "" THEN ""
    ELSE LowerChar(SubSeq(s, 1, 1)) \o Lower(SubSeq(s, 2, Len(s)))

\* a in b, for strings
IsSubstring(a, b) ==
    \E i \in 0..(Len(b) - Len(a)) : SubSeq(b, i + 1, i + Len(a)) = a

RECURSIVE SplitFrom(_, _, _)
SplitFrom(s, i, word) ==
    IF i > Len(s)
    THEN IF word = "" THEN <<>> ELSE <<word>>
    ELSE IF SubSeq(s, i, i) = " "
         THEN (IF word = "" THEN <<>> ELSE <<word>>) \o SplitFrom(s, i + 1, "")
         ELSE SplitFrom(s, i + 1, word \o SubSeq(s, i, i))

\* str.split(): the words between runs of blanks
Split(s) == SplitFrom(s, 1, "")

Range(f) == {f[i] : i \in DOMAIN f}

RECURSIVE JoinWords(_)
\* ' '.join(words)
JoinWords(words) ==
    IF words = <<>> THEN ""
    ELSE IF Len(words) = 1 THEN words[1]
    ELSE words[1] \o " " \o JoinWords(Tail(words))

RECURSIVE SumSeq(_)
SumSeq(s) == IF s = <<>> THEN 0 ELSE s[1] + SumSeq(Tail(s))

----------------------------------------------------------------------------
(* config.py *)

\* Settings.confidence_weights, in percent
DefaultConfidenceWeights ==
    [semantic_similarity |-> 40, regional_match |-> 25,
     price_range |-> 20, vendor_reliability |-> 15]

\* Settings(): a pydantic BaseSettings field takes the value of the environment
\* variable of its name (CONFIDENCE_WEIGHTS, a JSON object) when one is set and
\* the class default otherwise; the class declares no validator.
LoadSettings(env) == IF env = None THEN DefaultConfidenceWeights ELSE env[1]

\* get_confidence_weights(): a copy of what was loaded
get_confidence_weights(loaded) == loaded

\* Settings.vector_dimensions, the length of every vector of the provider
vector_dimensions == 2

\* Settings.base_margin 0.25, vat_renovation 0.10, vat_new_build 0.20 (twentieths)
RateScale == 20

base_margin == 5

vat_renovation == 2

vat_new_build == 4

\* Settings.regional_multipliers (twentieths)
regional_multipliers ==
    [r \in {"Île-de-France", "Provence-Alpes-Côte d'Azur", "Auvergne-Rhône-Alpes",
            "Occitanie", "Nouvelle-Aquitaine", "Hauts-de-France", "Grand Est",
            "Bourgogne-Franche-Comté", "Centre-Val de Loire", "Normandie",
            "Bretagne", "Pays de la Loire", "Corse"} |->
        CASE r = "Île-de-France" -> 23
          [] r = "Provence-Alpes-Côte d'Azur" -> 22
          [] r = "Auvergne-Rhône-Alpes" -> 21
          [] r = "Occitanie" -> 20
          [] r \in {"Nouvelle-Aquitaine", "Grand Est", "Centre-Val de Loire",
                    "Bretagne", "Pays de la Loire"} -> 19
          [] r \in {"Hauts-de-France", "Bourgogne-Franche-Comté", "Normandie"} -> 18
          [] r = "Corse" -> 24]

\* Settings.default_labor_rates, euros per hour
default_labor_rates ==
    [tiling |-> 45, painting |-> 35, plumbing |-> 55, electrical |-> 50,
     carpentry |-> 40, general |-> 40]

----------------------------------------------------------------------------
(* services/embedding_service.py: the provider, as far as the ranker sees it *)

\* Vectors are scaled by 5: <<3, 4>> is the unit vector (0.6, 0.8).
ZeroVector == [i \in 1..vector_dimensions |-> 0]

Pad(v) == v \o [i \in 1..(vector_dimensions - Len(v)) |-> 0]

\* SentenceTransformer.encode(text, normalize_embeddings=True): the pretrained
\* model is outside the repository; a fixed table of unit vectors stands for it.
ModelEncode(text) ==
    IF IsSubstring("tile", text) \/ IsSubstring("carrelage", text) THEN Pad(<<5, 0>>)
    ELSE IF IsSubstring("paint", text) THEN Pad(<<0, 5>>)
    ELSE IF IsSubstring("glue", text) \/ IsSubstring("adhesive", text) THEN Pad(<<4, 3>>)
    ELSE Pad(<<3, 4>>)

\* str.strip() of a text whose words are separated by single blanks
Strip(text) == JoinWords(Split(text))

\* EmbeddingService.get_embedding: never raises; the zero vector when loading the
\* model or inference fails (providerUp = FALSE) or the text is blank.
get_embedding(text, providerUp) ==
    IF ~providerUp THEN ZeroVector
    ELSE IF text = "" \/ Strip(text) = "" THEN ZeroVector
    ELSE ModelEncode(Strip(text))

----------------------------------------------------------------------------
(* services/material_service.py: similarity *)

\* np.linalg.norm of an integer vector whose squared length is a perfect square
Norm(v) ==
    LET sq == SumSeq([i \in 1..Len(v) |-> v[i] * v[i]])
    IN  CHOOSE r \in 0..sq : r * r = sq

\* MaterialService._cosine_similarity, in percent; np.dot raises on vectors of
\* different lengths and the handler of the method turns that into 0.0
cosine_similarity(vec1, vec2) ==
    IF Len(vec1) # Len(vec2) THEN 0
    ELSE LET dot_product == SumSeq([i \in 1..Len(vec1) |-> vec1[i] * vec2[i]])
             norm1 == Norm(vec1)
             norm2 == Norm(vec2)
         IN  IF norm1 = 0 \/ norm2 = 0 THEN 0
             ELSE (dot_product * 100) \div (norm1 * norm2)

\* MaterialService._text_similarity, in percent (the quotient is exact for the
\* queries of one or two words drawn below)
text_similarity(query, material_name, description) ==
    LET query_lower == Lower(query)
        name_lower  == Lower(material_name)
        desc_lower  == Lower(description)
        query_words == Range(Split(query_lower))
        name_words  == Range(Split(name_lower))
        desc_words  == Range(Split(desc_lower))
        name_overlap == IF query_words # {}
                        THEN (Cardinality(query_words \cap name_words) * 70)
                                 \div Cardinality(query_words)
                        ELSE 0
        desc_overlap == IF query_words # {}
                        THEN (Cardinality(query_words \cap desc_words) * 70)
                                 \div Cardinality(query_words)
                        ELSE 0
    IN  IF IsSubstring(query_lower, name_lower) \/ IsSubstring(query_lower, desc_lower)
        THEN 90
        ELSE Max(name_overlap, desc_overlap)

\* The embedding column holds text: valid is whether json.loads accepts it,
\* vector the list of numbers it then gives.
Embedding(v) == [valid |-> TRUE, vector |-> v]

MalformedEmbedding == [valid |-> FALSE, vector |-> <<>>]

\* a faulty variant: a stored embedding that cannot be compared with the query
\* vector is replaced by the text similarity
calculate_similarity_score_text_on_error(query_embedding, material, query) ==
    LET text == text_similarity(query, material.material_name, material.description)
        similarity ==
            IF material.embedding # None
            THEN IF material.embedding[1].valid
                        /\ Len(material.embedding[1].vector) = Len(query_embedding)
                        /\ Norm(material.embedding[1].vector) # 0
                        /\ Norm(query_embedding) # 0
                 THEN cosine_similarity(query_embedding, material.embedding[1].vector)
                 ELSE text
            ELSE text
    IN  Max(0, Min(100, similarity))

\* MaterialService._calculate_similarity_score, in percent
calculate_similarity_score(query_embedding, material, query) ==
    LET similarity ==
            IF material.embedding # None
            THEN IF material.embedding[1].valid
                 THEN cosine_similarity(query_embedding, material.embedding[1].vector)
                 ELSE 0    \* json.loads raised: except branch, 0.0
            ELSE text_similarity(query, material.material_name, material.description)
    IN  Max(0, Min(100, similarity))

----------------------------------------------------------------------------
(* services/material_service.py: the confidence engine *)

\* a faulty variant: the upper ends of the two bands are left out
validate_price_range_exclusive(unit_price) ==
    IF 10 <= unit_price /\ unit_price < 100000 THEN 100
    ELSE IF 1 <= unit_price /\ unit_price < 1000000 THEN 70
    ELSE 30

\* MaterialService._validate_price_range, in percent; unit_price in cents
validate_price_range(unit_price) ==
    IF 10 <= unit_price /\ unit_price <= 100000 THEN 100
    ELSE IF 1 <= unit_price /\ unit_price <= 1000000 THEN 70
    ELSE 30

\* the dict reliable_vendors, in insertion order
reliable_vendors ==
    << <<"leroy merlin", 90>>, <<"castorama", 85>>,
       <<"brico depot", 80>>, <<"weldom", 75>> >>

\* a faulty variant: the score of the persisted record of the vendor, when it
\* has one with a history, instead of the static table
get_vendor_reliability_persisted(vendor) ==
    IF ~Truthy(vendor) THEN 50
    ELSE IF \E r \in DOMAIN vendor_reliability :
                /\ vendor_reliability[r].vendor_name = vendor[1]
                /\ vendor_reliability[r].total_quotes > 0
    THEN LET r == CHOOSE r \in DOMAIN vendor_reliability :
                      /\ vendor_reliability[r].vendor_name = vendor[1]
                      /\ vendor_reliability[r].total_quotes > 0
         IN  (vendor_reliability[r].accepted_quotes * 100)
                 \div vendor_reliability[r].total_quotes
    ELSE 50

\* MaterialService._get_vendor_reliability, in percent
get_vendor_reliability(vendor) ==
    IF ~Truthy(vendor) THEN 50
    ELSE LET vendor_lower == Lower(vendor[1])
             hits == {i \in DOMAIN reliable_vendors :
                         IsSubstring(reliable_vendors[i][1], vendor_lower)}
         IN  IF hits = {} THEN 50
             ELSE reliable_vendors[CHOOSE i \in hits : \A j \in hits : i <= j][2]

\* the regional sub-score of _calculate_confidence_score, in percent
regional_match(region, material_region) ==
    IF Truthy(region) /\ material_region # ""
    THEN IF Lower(region[1]) = Lower(material_region) THEN 100
         ELSE IF IsSubstring(Lower(region[1]), Lower(material_region))
                 \/ IsSubstring(Lower(material_region), Lower(region[1])) THEN 70
         ELSE 0
    ELSE 0

\* total_confidence of _calculate_confidence_score before clamping (1/10000)
total_confidence(weights, material, similarity_score, region) ==
    similarity_score * weights.semantic_similarity
    + regional_match(region, material.region) * weights.regional_match
    + validate_price_range(material.unit_price) * weights.price_range
    + get_vendor_reliability(material.vendor) * weights.vendor_reliability

\* a faulty variant: the sub-scores are summed as they are, the weights forgotten
calculate_confidence_score_unweighted(weights, material, similarity_score, region) ==
    (similarity_score + regional_match(region, material.region)
     + validate_price_range(material.unit_price)
     + get_vendor_reliability(material.vendor)) * 100

\* MaterialService._calculate_confidence_score (1/10000)
calculate_confidence_score(weights, material, similarity_score, region) ==
    Max(0, Min(10000, total_confidence(weights, material, similarity_score, region)))

\* MaterialService._get_confidence_tier
get_confidence_tier(confidence_score) ==
    IF confidence_score >= 8000 THEN "HIGH"
    ELSE IF confidence_score >= 6000 THEN "MEDIUM"
    ELSE "LOW"

----------------------------------------------------------------------------
(* services/material_service.py: the material ranker *)

\* the WHERE clause search_materials builds: a filter applies when its
\* argument is truthy; a NULL column never satisfies a comparison
MatchesFilters(m, region, unit, quality_score, vendor) ==
    /\ Truthy(region) => m.region = region[1]
    /\ Truthy(unit) => m.unit = unit[1]
    /\ TruthyInt(quality_score) =>
           m.quality_score # None /\ m.quality_score[1] >= quality_score[1]
    /\ Truthy(vendor) => m.vendor # None /\ m.vendor[1] = vendor[1]

\* db_query.limit(limit * 3).all()
FetchCandidates(mats, region, unit, quality_score, vendor, limit) ==
    LET Test(m) == MatchesFilters(m, region, unit, quality_score, vendor)
        found == SelectSeq(mats, Test)
    IN  SubSeq(found, 1, Min(limit * 3, Len(found)))

\* a faulty variant: an item goes before the items of equal score
InsertRankedBeforeEqual(sorted, item) ==
    LET p == Cardinality({i \in DOMAIN sorted :
                             sorted[i].confidence_score > item.confidence_score})
    IN  SubSeq(sorted, 1, p) \o <<item>> \o SubSeq(sorted, p + 1, Len(sorted))

\* one step of list.sort(key=confidence_score, reverse=True): Python's sort is
\* stable, an item goes after the items of greater or equal score already placed
InsertRanked(sorted, item) ==
    LET p == Cardinality({i \in DOMAIN sorted :
                             sorted[i].confidence_score >= item.confidence_score})
    IN  SubSeq(sorted, 1, p) \o <<item>> \o SubSeq(sorted, p + 1, Len(sorted))

RECURSIVE SortFrom(_, _)
SortFrom(sorted, rest) ==
    IF rest = <<>> THEN sorted
    ELSE SortFrom(InsertRanked(sorted, rest[1]), Tail(rest))

\* ranked_materials.sort(key=lambda x: x['confidence_score'], reverse=True)
SortByConfidence(ranked) == SortFrom(<<>>, ranked)

\* steps 1 and 3 of search_materials: the candidates with their scores
ScoreCandidates(weights, candidates, query, region, providerUp) ==
    LET query_embedding == get_embedding(query, providerUp)
    IN  [i \in DOMAIN candidates |->
            LET similarity_score ==
                    calculate_similarity_score(query_embedding, candidates[i], query)
            IN  [material |-> candidates[i],
                 similarity_score |-> similarity_score,
                 confidence_score |->
                     calculate_confidence_score(weights, candidates[i],
                                                similarity_score, region)]]

\* a faulty variant: the slice is forgotten
TopAll(ranked, limit) == ranked

\* ranked_materials[:limit]
Top(ranked, limit) == SubSeq(ranked, 1, Min(limit, Len(ranked)))

\* the field constraints of models.MaterialPriceResponse that a row can break
ValidMaterialPriceResponse(m) ==
    /\ m.unit_price >= 0
    /\ m.quality_score # None => (1 <= m.quality_score[1] /\ m.quality_score[1] <= 10)

\* step 5 of search_materials: one MaterialPriceResponse
MaterialPriceResponse(item) ==
    [material_name |-> item.material.material_name,
     description |-> item.material.description,
     unit_price |-> item.material.unit_price,
     unit |-> item.material.unit,
     region |-> item.material.region,
     similarity_score |-> item.similarity_score,
     confidence_tier |-> get_confidence_tier(item.confidence_score),
     source |-> IF Truthy(item.material.source_url)
                THEN item.material.source_url[1] ELSE "Internal database",
     vendor |-> item.material.vendor,
     quality_score |-> item.material.quality_score]

\* MaterialService.search_materials: ok = FALSE when it raises; ranked is the
\* sorted, truncated list the results are built from
search_materials(weights, mats, query, region, unit, quality_score, vendor, limit, providerUp) ==
    LET candidates == FetchCandidates(mats, region, unit, quality_score, vendor, limit)
        ranked == Top(SortByConfidence(
                          ScoreCandidates(weights, candidates, query, region, providerUp)),
                      limit)
    IN  IF candidates = <<>>
        THEN [ok |-> TRUE, results |-> <<>>, ranked |-> <<>>]
        ELSE IF \A i \in DOMAIN ranked : ValidMaterialPriceResponse(ranked[i].material)
        THEN [ok |-> TRUE,
              results |-> [i \in DOMAIN ranked |-> MaterialPriceResponse(ranked[i])],
              ranked |-> ranked]
        ELSE [ok |-> FALSE, results |-> <<>>, ranked |-> <<>>]

----------------------------------------------------------------------------
(* services/embedding_service.py: text heuristics *)

\* ASCII characters that re.sub(r'[^\w\s\-.,!?]', '', text) removes (not all of
\* them: a string of this notation cannot hold a backquote, a quote, a backslash)
RemovedChars == "'#$%&()*+/:;<=>@[]^{|}~"

RECURSIVE RemoveSpecial(_)
RemoveSpecial(s) ==
    IF s = "" THEN ""
    ELSE (IF IsSubstring(SubSeq(s, 1, 1), RemovedChars) THEN "" ELSE SubSeq(s, 1, 1))
             \o RemoveSpecial(SubSeq(s, 2, Len(s)))

\* EmbeddingService.preprocess_text
preprocess_text(text) ==
    IF text = "" THEN "" ELSE RemoveSpecial(Lower(JoinWords(Split(text))))

stop_words ==
    {"the", "a", "an", "and", "or", "but", "in", "on", "at", "to", "for",
     "of", "with", "by", "is", "are", "was", "were", "be", "been", "being",
     "have", "has", "had", "do", "does", "did", "will", "would", "could",
     "should", "may", "might", "can", "this", "that", "these", "those"}

\* Counter(keywords).most_common(): the distinct words by falling count, words of
\* equal count in the order of their first occurrence
MostCommon(words) ==
    LET Count(w) == Cardinality({i \in DOMAIN words : words[i] = w})
        First(w) == CHOOSE i \in DOMAIN words :
                        words[i] = w /\ \A j \in DOMAIN words : words[j] = w => i <= j
        distinct == Range(words)
        Before(v, w) == Count(v) > Count(w) \/ (Count(v) = Count(w) /\ First(v) < First(w))
    IN  [k \in 1..Cardinality(distinct) |->
            CHOOSE w \in distinct : Cardinality({v \in distinct : Before(v, w)}) = k - 1]

\* EmbeddingService.get_semantic_keywords
get_semantic_keywords(text, top_k) ==
    LET words == Split(Lower(text))
        Keep(word) == word \notin stop_words /\ Len(word) > 2
        common == MostCommon(SelectSeq(words, Keep))
    IN  SubSeq(common, 1, Min(top_k, Len(common)))

----------------------------------------------------------------------------
(* services/pricing_service.py: the task extractor *)

TaskTypes == <<"tiling", "painting", "plumbing", "electrical", "carpentry">>

\* task_keywords of _identify_tasks
classification_keywords(task_type) ==
    CASE task_type = "tiling" -> {"tile", "carrelage", "bathroom", "shower", "wall"}
      [] task_type = "painting" -> {"paint", "peinture", "wall", "ceiling"}
      [] task_type = "plumbing" -> {"pipe", "tuyau", "water", "bathroom", "kitchen"}
      [] task_type = "electrical" -> {"wire", "fil", "electric", "switch", "outlet"}
      [] task_type = "carpentry" -> {"wood", "bois", "door", "window", "cabinet"}
      [] OTHER -> {}

\* task_keywords of _material_belongs_to_task
material_keywords(task_type) ==
    CASE task_type = "tiling" -> {"tile", "carrelage", "adhesive", "grout"}
      [] task_type = "painting" -> {"paint", "peinture", "primer", "brush"}
      [] task_type = "plumbing" -> {"pipe", "tuyau", "valve", "fitting"}
      [] task_type = "electrical" -> {"wire", "fil", "cable", "switch"}
      [] task_type = "carpentry" -> {"wood", "bois", "board", "screw"}
      [] OTHER -> {}

\* a faulty variant: the material is tested against the classification list
material_belongs_to_task_by_family(material, task_type) ==
    LET material_text == Lower(material.material_name \o " " \o material.description)
    IN  \E keyword \in classification_keywords(task_type) :
            IsSubstring(keyword, material_text)

\* PricingService._material_belongs_to_task
material_belongs_to_task(material, task_type) ==
    LET material_text == Lower(material.material_name \o " " \o material.description)
    IN  \E keyword \in material_keywords(task_type) : IsSubstring(keyword, material_text)

RECURSIVE Replace(_, _, _)
\* str.replace(old, new), old not empty
Replace(s, old, new) ==
    IF Len(s) < Len(old) THEN s
    ELSE IF SubSeq(s, 1, Len(old)) = old
         THEN new \o Replace(SubSeq(s, Len(old) + 1, Len(s)), old, new)
         ELSE SubSeq(s, 1, 1) \o Replace(SubSeq(s, 2, Len(s)), old, new)

\* base_durations.get(task_type, '1 day') of _estimate_task_duration
base_durations(task_type) ==
    CASE task_type \in {"tiling", "carpentry"} -> "2 days"
      [] task_type \in {"painting", "plumbing", "electrical", "general"} -> "1 day"
      [] OTHER -> "1 day"

\* PricingService._estimate_task_duration
estimate_task_duration(task_type, material_count) ==
    LET duration == base_durations(task_type)
    IN  IF material_count > 5
        THEN IF IsSubstring("1 day", duration) THEN Replace(duration, "1 day", "2 days")
             ELSE IF IsSubstring("2 days", duration) THEN Replace(duration, "2 days", "3 days")
             ELSE duration
        ELSE duration

\* identified_tasks of _identify_tasks, a set
identified_tasks(keywords) ==
    {task_type \in Range(TaskTypes) :
        \E i \in DOMAIN keywords : \E k \in classification_keywords(task_type) :
            IsSubstring(k, Lower(keywords[i]))}

\* the orders in which Python may iterate over a set of strings (str hashes are
\* salted per process)
IterationOrders(S) ==
    {order \in [1..Cardinality(S) -> S] : \A x \in S : \E i \in DOMAIN order : order[i] = x}

\* a faulty variant: no general task when no category is identified
identify_tasks_no_general(keywords, found, order) ==
    [i \in DOMAIN order |->
        [type |-> order[i],
         materials |-> SelectSeq(found, LAMBDA m : material_belongs_to_task(m, order[i])),
         duration |-> estimate_task_duration(
                          order[i],
                          Len(SelectSeq(found,
                                        LAMBDA m : material_belongs_to_task(m, order[i]))))]]

\* PricingService._identify_tasks, iterating over identified_tasks in the given order
identify_tasks(keywords, found, order) ==
    LET Task(task_type) ==
            LET Belongs(m) == material_belongs_to_task(m, task_type)
                task_materials == SelectSeq(found, Belongs)
            IN  [type |-> task_type,
                 materials |-> task_materials,
                 duration |-> estimate_task_duration(task_type, Len(task_materials))]
    IN  IF order # <<>>
        THEN [i \in DOMAIN order |-> Task(order[i])]
        ELSE << [type |-> "general", materials |-> found, duration |-> "1 day"] >>

RECURSIVE SearchEach(_, _, _, _, _)
\* the loop of _extract_materials_and_tasks over the keywords: the accumulated
\* results, ok = FALSE when a search raises
SearchEach(weights, mats, keywords, region, providerUp) ==
    IF keywords = <<>> THEN [ok |-> TRUE, results |-> <<>>]
    ELSE LET r == search_materials(weights, mats, keywords[1], region,
                                   None, None, None, 3, providerUp)
             rest == SearchEach(weights, mats, Tail(keywords), region, providerUp)
         IN  [ok |-> r.ok /\ rest.ok, results |-> r.results \o rest.results]

\* the keywords _extract_materials_and_tasks searches for
extract_keywords(transcript) == get_semantic_keywords(preprocess_text(transcript), 10)

\* a faulty variant: a failing search is skipped and the tasks are built from
\* what the other searches found
extract_materials_and_tasks_partial(weights, mats, transcript, region, providerUp) ==
    LET keywords == extract_keywords(transcript)
        found == SearchEach(weights, mats, keywords, region, providerUp)
    IN  {identify_tasks(keywords, found.results, order) :
             order \in IterationOrders(identified_tasks(keywords))}

\* the task lists PricingService._extract_materials_and_tasks can return
extract_materials_and_tasks(weights, mats, transcript, region, providerUp) ==
    LET keywords == extract_keywords(transcript)
        found == SearchEach(weights, mats, keywords, region, providerUp)
    IN  IF ~found.ok
        THEN { << [type |-> "general", materials |-> <<>>, duration |-> "1 day"] >> }
        ELSE {identify_tasks(keywords, found.results, order) :
                  order \in IterationOrders(identified_tasks(keywords))}

----------------------------------------------------------------------------
(* services/pricing_service.py: the pricing calculator *)

\* the dict base_quantities of _estimate_material_quantity, in insertion order
base_quantities ==
    << <<"tiles", 10>>, <<"adhesives", 5>>, <<"paints", 5>>,
       <<"pipes", 10>>, <<"wires", 20>>, <<"wood", 5>> >>

\* PricingService._estimate_material_quantity
estimate_material_quantity(material, task_type) ==
    LET material_name == Lower(material.material_name)
        hits == {i \in DOMAIN base_quantities :
                    IsSubstring(base_quantities[i][1], material_name)}
    IN  IF hits = {} THEN 1
        ELSE base_quantities[CHOOSE i \in hits : \A j \in hits : i <= j][2]

Digits == "0123456789"

IsDigit(c) == Len(c) = 1 /\ IsSubstring(c, Digits)

DigitValue(c) == (CHOOSE i \in 1..Len(Digits) : SubSeq(Digits, i, i) = c) - 1

RECURSIVE DigitsValue(_, _)
\* int() of a run of digits
DigitsValue(s, acc) ==
    IF s = "" THEN acc
    ELSE DigitsValue(SubSeq(s, 2, Len(s)), acc * 10 + DigitValue(SubSeq(s, 1, 1)))

\* re.findall(r'\d+', s)[0]: the first run of digits of s, "" when there is none
FirstDigits(s) ==
    LET starts == {i \in 1..Len(s) : IsDigit(SubSeq(s, i, i))}
    IN  IF starts = {} THEN ""
        ELSE LET b == CHOOSE i \in starts : \A j \in starts : i <= j
                 e == CHOOSE k \in b..Len(s) :
                          /\ \A j \in b..k : IsDigit(SubSeq(s, j, j))
                          /\ (k = Len(s) \/ ~IsDigit(SubSeq(s, k + 1, k + 1)))
             IN  SubSeq(s, b, e)

\* PricingService._parse_duration_to_hours
parse_duration_to_hours(duration) ==
    IF IsSubstring("day", Lower(duration))
    THEN IF FirstDigits(duration) = "" THEN 8    \* IndexError: except branch
         ELSE DigitsValue(FirstDigits(duration), 0) * 8
    ELSE IF IsSubstring("hour", Lower(duration))
    THEN IF FirstDigits(duration) = "" THEN 8
         ELSE DigitsValue(FirstDigits(duration), 0)
    ELSE 8

\* self.labor_rates.get(task_type, self.labor_rates['general'])
labor_rate(task_type) ==
    IF task_type \in DOMAIN default_labor_rates
    THEN default_labor_rates[task_type] ELSE default_labor_rates["general"]

\* PricingService._calculate_labor_cost, in cents
calculate_labor_cost(task_type, duration) ==
    parse_duration_to_hours(duration) * labor_rate(task_type) * 100

\* PricingService._get_regional_multiplier, in twentieths
get_regional_multiplier(region) ==
    IF ~Truthy(region) THEN RateScale
    ELSE IF region[1] \in DOMAIN regional_multipliers
         THEN regional_multipliers[region[1]] ELSE RateScale

\* one is 10^7 in the unit of a task's and a quote's confidence score
ConfidenceOne == 10000000

task_type_confidence(task_type) ==
    CASE task_type = "tiling" -> 80
      [] task_type = "painting" -> 90
      [] task_type \in {"plumbing", "carpentry"} -> 70
      [] task_type = "electrical" -> 60
      [] task_type = "general" -> 50
      [] OTHER -> 50

\* PricingService._calculate_task_confidence (1/10^7); the mean is the one
\* quotient, truncated at 1/10^6
calculate_task_confidence(material_items, task_type) ==
    IF material_items = <<>> THEN 3 * (ConfidenceOne \div 10)
    ELSE LET avg_material_confidence ==
                 (SumSeq([i \in DOMAIN material_items |->
                             material_items[i].confidence_score]) * 10000)
                     \div Len(material_items)
         IN  avg_material_confidence * 7 + task_type_confidence(task_type) * 10000 * 3

task_labels(task_type) ==
    CASE task_type = "tiling" -> "Tile Installation"
      [] task_type = "painting" -> "Painting"
      [] task_type = "plumbing" -> "Plumbing Work"
      [] task_type = "electrical" -> "Electrical Work"
      [] task_type = "carpentry" -> "Carpentry Work"
      [] task_type = "general" -> "General Renovation"
      [] OTHER -> "General Work"

\* PricingService._create_task_label
create_task_label(task_type, found) ==
    IF found # <<>>
    THEN task_labels(task_type) \o " - " \o found[1].material_name
             \o (IF Len(found) > 1 THEN ", " \o found[2].material_name ELSE "")
    ELSE task_labels(task_type)

\* the MaterialItem _calculate_task_pricing builds for one material
MaterialItem(material, task_type) ==
    LET quantity == estimate_material_quantity(material, task_type)
    IN  [material_name |-> material.material_name,
         quantity |-> quantity,
         unit |-> material.unit,
         unit_price |-> material.unit_price,
         total_price |-> material.unit_price * quantity,
         confidence_score |-> material.similarity_score]

\* the Task the except branch of _calculate_task_pricing returns
\* a faulty variant: the fallback task costs nothing
FallbackTaskFree(task_data) ==
    [label |-> "General " \o task_data.type,
     materials |-> <<>>,
     estimated_duration |-> "1 day",
     margin_protected_price |-> 0,
     confidence_score |-> ConfidenceOne \div 2,
     labor_cost |-> 0]

FallbackTask(task_data) ==
    [label |-> "General " \o task_data.type,
     materials |-> <<>>,
     estimated_duration |-> "1 day",
     margin_protected_price |-> 100 * 100 * RateScale * RateScale,
     confidence_score |-> ConfidenceOne \div 2,
     labor_cost |-> 80 * 100 * RateScale]

\* a faulty variant: no margin is added
margin_factor_none == RateScale

\* (1 + self.pricing_config['base_margin']) of _calculate_task_pricing (twentieths)
margin_factor == RateScale + base_margin

\* the try branch of _calculate_task_pricing.  total_price of an item is in
\* cents; labor_cost is the adjusted labor cost (1/2000); margin_protected_price
\* is in 1/40000
PricedTask(task_data, region) ==
    LET task_type == task_data.type
        material_items == [i \in DOMAIN task_data.materials |->
                              MaterialItem(task_data.materials[i], task_type)]
        total_material_cost ==
            SumSeq([i \in DOMAIN material_items |-> material_items[i].total_price])
        labor_cost == calculate_labor_cost(task_type, task_data.duration)
        regional_multiplier == get_regional_multiplier(region)
        adjusted_material_cost == total_material_cost * regional_multiplier
        adjusted_labor_cost == labor_cost * regional_multiplier
    IN  [label |-> create_task_label(task_type, task_data.materials),
         materials |-> material_items,
         estimated_duration |-> task_data.duration,
         margin_protected_price |->
             (adjusted_material_cost + adjusted_labor_cost) * margin_factor,
         confidence_score |-> calculate_task_confidence(material_items, task_type),
         labor_cost |-> adjusted_labor_cost]

\* PricingService._calculate_task_pricing; raises = TRUE when a statement of the
\* try branch raises
calculate_task_pricing(task_data, region, project_type, raises) ==
    IF raises THEN FallbackTask(task_data) ELSE PricedTask(task_data, region)

\* PricingService._determine_vat_rate, in twentieths
determine_vat_rate(project_type) ==
    IF Truthy(project_type) /\ IsSubstring("new", Lower(project_type[1]))
    THEN vat_new_build ELSE vat_renovation

\* PricingService._calculate_overall_confidence (1/10^7, truncated)
calculate_overall_confidence(priced) ==
    IF priced = <<>> THEN 0
    ELSE SumSeq([i \in DOMAIN priced |-> priced[i].confidence_score]) \div Len(priced)

----------------------------------------------------------------------------
(* services/pricing_service.py: generate_proposal *)

\* the loop of generate_proposal that prices extracted_data['tasks'] one by
\* one; fails is the set of positions whose pricing raises
price_tasks(task_list, region, project_type, fails) ==
    [i \in DOMAIN task_list |->
        calculate_task_pricing(task_list[i], region, project_type, i \in fails)]

\* sum(m.total_price for m in task.materials), in cents
task_materials_cost(task) ==
    SumSeq([i \in DOMAIN task.materials |-> task.materials[i].total_price])

\* a faulty variant: the labor of no task is accumulated
accumulated_labor_none(task) == 0

\* what "if task.labor_cost: total_labor_cost += task.labor_cost" adds (1/2000)
accumulated_labor(task) == IF task.labor_cost # 0 THEN task.labor_cost ELSE 0

\* total_materials_cost + total_labor_cost of generate_proposal (1/2000)
proposal_subtotal(priced) ==
    SumSeq([i \in DOMAIN priced |-> task_materials_cost(priced[i])]) * RateScale
        + SumSeq([i \in DOMAIN priced |-> accumulated_labor(priced[i])])

\* subtotal + vat_amount + margin_amount of generate_proposal (1/40000)
proposal_total_estimate(subtotal, vat_rate) ==
    subtotal * RateScale + subtotal * vat_rate + subtotal * base_margin

\* the GenerateProposalResponse of generate_proposal
GenerateProposalResponse(quote_id, transcript, priced, region, project_type) ==
    [quote_id |-> quote_id,
     transcript |-> transcript,
     tasks |-> priced,
     total_estimate |->
         proposal_total_estimate(proposal_subtotal(priced),
                                 determine_vat_rate(project_type)),
     confidence_score |-> calculate_overall_confidence(priced),
     vat_rate |-> determine_vat_rate(project_type),
     margin_percentage |-> base_margin,
     region |-> region,
     project_type |-> project_type]

\* the Quote row generate_proposal adds
QuoteRow(proposal, user_type) ==
    [id |-> proposal.quote_id,
     transcript |-> proposal.transcript,
     total_estimate |-> proposal.total_estimate,
     confidence_score |-> proposal.confidence_score,
     user_type |-> user_type,
     region |-> proposal.region,
     project_type |-> proposal.project_type]

\* the TaskDB rows generate_proposal adds, ids from first_id on
TaskRows(proposal, first_id) ==
    [i \in DOMAIN proposal.tasks |->
        [id |-> first_id + i - 1,
         quote_id |-> proposal.quote_id,
         label |-> proposal.tasks[i].label,
         estimated_duration |-> proposal.tasks[i].estimated_duration,
         margin_protected_price |-> proposal.tasks[i].margin_protected_price,
         confidence_score |-> proposal.tasks[i].confidence_score,
         labor_cost |-> proposal.tasks[i].labor_cost]]

RECURSIVE Concat(_)
Concat(seqs) == IF seqs = <<>> THEN <<>> ELSE seqs[1] \o Concat(Tail(seqs))

\* the MaterialUsage rows generate_proposal adds; a MaterialItem has no
\* material_id, so every row carries 0
MaterialUsageRows(proposal, first_id) ==
    LET items == Concat([i \in DOMAIN proposal.tasks |-> proposal.tasks[i].materials])
    IN  [k \in DOMAIN items |->
            [id |-> first_id + k - 1,
             quote_id |-> proposal.quote_id,
             material_id |-> 0,
             quantity |-> items[k].quantity,
             unit_price |-> items[k].unit_price,
             total_price |-> items[k].total_price,
             confidence_score |-> items[k].confidence_score]]

----------------------------------------------------------------------------
(* services/feedback_service.py *)

VerdictTypes == {"accepted", "rejected", "modified", "overpriced", "underpriced"}

UserTypes == {"contractor", "client", "architect"}

\* a faulty variant: every verdict weighs 1.0
verdict_weights_flat(verdict) == 10

\* verdict_weights of _calculate_impact_score, in tenths
verdict_weights(verdict) ==
    CASE verdict = "rejected" -> 10
      [] verdict \in {"overpriced", "underpriced"} -> 8
      [] verdict = "modified" -> 6
      [] verdict = "accepted" -> 3
      [] OTHER -> 5

\* user_weights of _calculate_impact_score, in tenths
user_weights(user_type) ==
    CASE user_type = "contractor" -> 10
      [] user_type = "architect" -> 9
      [] user_type = "client" -> 7
      [] OTHER -> 5

\* a faulty variant: the final clamp to [0, 1] left out
calculate_impact_score_unclamped(verdict, user_type, quote) ==
    LET base_score == 5 * verdict_weights(verdict) * user_weights(user_type)
        confidence_factor == (2 * ConfidenceOne - quote.confidence_score) \div 1000
        by_confidence ==
            IF verdict \in {"rejected", "overpriced", "underpriced"}
            THEN base_score * confidence_factor
            ELSE base_score * 10000
        value_factor ==
            Min(quote.total_estimate \div (100 * RateScale * RateScale), 2000)
    IN  (by_confidence \div 1000) * value_factor

\* FeedbackService._calculate_impact_score (1/10^7).  The confidence factor is
\* taken at 1/10^4 and the value factor at 1/1000, both truncated.
calculate_impact_score(verdict, user_type, quote) ==
    LET base_score == 5 * verdict_weights(verdict) * user_weights(user_type)
        confidence_factor == (2 * ConfidenceOne - quote.confidence_score) \div 1000
        by_confidence ==
            IF verdict \in {"rejected", "overpriced", "underpriced"}
            THEN base_score * confidence_factor
            ELSE base_score * 10000
        value_factor ==
            Min(quote.total_estimate \div (100 * RateScale * RateScale), 2000)
    IN  Max(0, Min(ConfidenceOne, (by_confidence \div 1000) * value_factor))

\* a faulty variant: the first stored quote, whatever its id
find_quote_any(rows, quote_id) ==
    IF rows = <<>> THEN None ELSE Some(rows[1])

\* db.query(Quote).filter(Quote.id == quote_id).first()
find_quote(rows, quote_id) ==
    IF \E i \in DOMAIN rows : rows[i].id = quote_id
    THEN Some(rows[CHOOSE i \in DOMAIN rows :
                      rows[i].id = quote_id
                          /\ \A j \in DOMAIN rows : rows[j].id = quote_id => i <= j])
    ELSE None

\* the vendors _update_vendor_reliability collects: the loop over the quote's
\* material usages is a placeholder that adds nothing to the set
QuoteVendors(quote, usages) == {}

\* the VendorReliability row a commit inserts for a constructed record whose
\* counters were never assigned: the column defaults 0.5, 0, 0.  A
\* reliability score is the pair <<numerator, denominator>>.
NewVendorRow(vendor) ==
    [vendor_name |-> vendor, total_quotes |-> 0, accepted_quotes |-> 0,
     reliability_score |-> <<1, 2>>]

\* a faulty variant: the score is computed with the total before the increment
UpdateVendorStaleScore(rows, vendor, accepted) ==
    IF \E i \in DOMAIN rows : rows[i].vendor_name = vendor
    THEN LET i == CHOOSE j \in DOMAIN rows : rows[j].vendor_name = vendor
             total == rows[i].total_quotes + 1
             acc == rows[i].accepted_quotes + (IF accepted THEN 1 ELSE 0)
         IN  [ok |-> TRUE,
              rows |-> [rows EXCEPT ![i] =
                          [vendor_name |-> vendor,
                           total_quotes |-> total,
                           accepted_quotes |-> acc,
                           reliability_score |-> <<acc, rows[i].total_quotes>>]]]
    ELSE [ok |-> FALSE, rows |-> Append(rows, NewVendorRow(vendor))]

\* the body of the loop of _update_vendor_reliability for one vendor.  A
\* VendorReliability just constructed has no counters before a flush (the
\* column defaults apply at INSERT), so "total_quotes += 1" on None raises:
\* ok is FALSE, the except of _update_vendor_reliability ends the loop, and
\* the added record is inserted with its defaults by the commit.
UpdateVendor(rows, vendor, accepted) ==
    IF \E i \in DOMAIN rows : rows[i].vendor_name = vendor
    THEN LET i == CHOOSE j \in DOMAIN rows : rows[j].vendor_name = vendor
             total == rows[i].total_quotes + 1
             acc == rows[i].accepted_quotes + (IF accepted THEN 1 ELSE 0)
         IN  [ok |-> TRUE,
              rows |-> [rows EXCEPT ![i] =
                          [vendor_name |-> vendor,
                           total_quotes |-> total,
                           accepted_quotes |-> acc,
                           reliability_score |-> <<acc, total>>]]]
    ELSE [ok |-> FALSE, rows |-> Append(rows, NewVendorRow(vendor))]

RECURSIVE UpdateVendors(_, _, _)
UpdateVendors(rows, vendors, accepted) ==
    IF vendors = {} THEN [ok |-> TRUE, rows |-> rows]
    ELSE LET vendor == CHOOSE v \in vendors : TRUE
             one == UpdateVendor(rows, vendor, accepted)
         IN  IF ~one.ok THEN one
             ELSE UpdateVendors(one.rows, vendors \ {vendor}, accepted)

\* FeedbackService._update_vendor_reliability
update_vendor_reliability(rows, quote, usages, verdict) ==
    UpdateVendors(rows, QuoteVendors(quote, usages), verdict = "accepted")

\* database.update_vendor_reliability on the caller's session.  For a vendor
\* with a record the counters and the score are updated and db.commit() is
\* called: committed is whether it succeeds.  For a vendor without one the
\* record is added and "total_quotes += 1" raises before the commit:
\* committed is whether the caller then commits its session, which inserts
\* the added record with the column defaults.
database_update_vendor_reliability(rows, vendor_name, accepted, committed) ==
    IF committed THEN UpdateVendor(rows, vendor_name, accepted).rows ELSE rows

\* a faulty variant: the multiplier of the quote's region lowered by 0.05 on
\* an overpriced or rejected quote
update_regional_pricing_applied(rows, quote, verdict) ==
    IF Truthy(quote.region) /\ verdict \in {"overpriced", "rejected"}
    THEN {IF r.region = quote.region[1]
          THEN [r EXCEPT !.multiplier = r.multiplier - 1] ELSE r : r \in rows}
    ELSE rows

\* FeedbackService._update_regional_pricing: the recommendation is logged,
\* the regional_pricing rows are what they were
update_regional_pricing(rows, quote, verdict) == rows

\* a faulty variant: the confidence of a rejected quote halved
log_feedback_patterns_rescored(quote, verdict) ==
    IF verdict = "rejected"
    THEN [quote EXCEPT !.confidence_score = quote.confidence_score \div 2]
    ELSE quote

\* FeedbackService._log_feedback_patterns: the Quote object after the learning
\* steps have read it; none of them assigns an attribute of it
log_feedback_patterns(quote, verdict) == quote

\* FeedbackService._update_system_learning: what the session holds when it
\* returns.  Nothing it calls raises to it.  queryOk = FALSE: the query of
\* _update_vendor_reliability raises, the handler of that method logs the
\* error and the remaining steps run.
update_system_learning(vendor_rows, regional_rows, quote, usages, verdict, queryOk) ==
    [vendor_reliability |->
         IF queryOk
         THEN update_vendor_reliability(vendor_rows, quote, usages, verdict).rows
         ELSE vendor_rows,
     regional_pricing |-> update_regional_pricing(regional_rows, quote, verdict),
     quote |-> log_feedback_patterns(quote, verdict)]

\* db.commit() writes the attributes of the Quote object the session loaded
StoreQuote(rows, quote) ==
    [i \in DOMAIN rows |-> IF rows[i].id = quote.id THEN quote ELSE rows[i]]

\* a dict of strings to strings is the sequence of its <<key, value>> items
\* in insertion order; a falsy Optional dict is None or the empty dict
TruthyDict(o) == o # None /\ o[1] # <<>>

\* any(word in comment.lower() for word in words)
AnyWordIn(words, text) == \E w \in words : IsSubstring(w, Lower(text))

\* the insight _generate_learning_insights adds for the verdict
VerdictInsight(verdict) ==
    CASE verdict = "rejected" ->
             <<"Quote was completely rejected - review pricing strategy">>
      [] verdict = "overpriced" ->
             <<"Quote was overpriced - consider reducing margins or finding cheaper materials">>
      [] verdict = "underpriced" ->
             <<"Quote was underpriced - review cost calculations and margins">>
      [] verdict = "modified" ->
             <<"Quote was modified - analyze what changes were made">>
      [] OTHER -> <<>>

\* the insight for confidence against outcome (0.8 and 0.5 in 1/10^7)
ConfidenceInsight(quote, verdict) ==
    IF quote.confidence_score > 8 * (ConfidenceOne \div 10)
           /\ verdict \in {"rejected", "overpriced"}
    THEN <<"High confidence quote was rejected - review confidence scoring logic">>
    ELSE IF quote.confidence_score < 5 * (ConfidenceOne \div 10) /\ verdict = "accepted"
    THEN <<"Low confidence quote was accepted - may be too conservative">>
    ELSE <<>>

RegionInsight(quote) ==
    IF Truthy(quote.region)
    THEN <<"Regional feedback for " \o quote.region[1]
               \o " - update regional pricing if needed">>
    ELSE <<>>

RECURSIVE MaterialInsights(_)
MaterialInsights(items) ==
    IF items = <<>> THEN <<>>
    ELSE (IF IsSubstring("expensive", Lower(items[1][2]))
          THEN <<"Material " \o items[1][1] \o " considered expensive - review pricing">>
          ELSE IF IsSubstring("quality", Lower(items[1][2]))
          THEN <<"Quality feedback for " \o items[1][1]
                     \o " - consider alternative suppliers">>
          ELSE <<>>)
         \o MaterialInsights(Tail(items))

PricingInsights(items) ==
    [i \in DOMAIN items |->
        "Pricing feedback on " \o items[i][1] \o ": " \o items[i][2]]

CommentInsight(comment) ==
    IF ~Truthy(comment) THEN <<>>
    ELSE IF AnyWordIn({"expensive", "overpriced", "high"}, comment[1])
    THEN <<"User indicated pricing was too high">>
    ELSE IF AnyWordIn({"cheap", "good price", "reasonable"}, comment[1])
    THEN <<"User indicated pricing was reasonable">>
    ELSE IF AnyWordIn({"quality", "material"}, comment[1])
    THEN <<"User provided material quality feedback">>
    ELSE <<>>

\* a faulty variant: no default insight when no rule triggers
generate_learning_insights_no_default(quote, verdict, comment, material_feedback, pricing_feedback) ==
    VerdictInsight(verdict) \o ConfidenceInsight(quote, verdict)
        \o RegionInsight(quote)
        \o (IF TruthyDict(material_feedback)
            THEN MaterialInsights(material_feedback[1]) ELSE <<>>)
        \o (IF TruthyDict(pricing_feedback)
            THEN PricingInsights(pricing_feedback[1]) ELSE <<>>)
        \o CommentInsight(comment)

\* FeedbackService._generate_learning_insights
generate_learning_insights(quote, verdict, comment, material_feedback, pricing_feedback) ==
    LET insights ==
            VerdictInsight(verdict) \o ConfidenceInsight(quote, verdict)
                \o RegionInsight(quote)
                \o (IF TruthyDict(material_feedback)
                    THEN MaterialInsights(material_feedback[1]) ELSE <<>>)
                \o (IF TruthyDict(pricing_feedback)
                    THEN PricingInsights(pricing_feedback[1]) ELSE <<>>)
                \o CommentInsight(comment)
    IN  IF insights = <<>> THEN <<"Feedback received - monitoring for patterns">>
        ELSE insights

\* the Feedback row process_feedback adds; json.dumps keeps a truthy dict and
\* a falsy one is stored as NULL
FeedbackRow(feedback_id, quote_id, quote, user_type, verdict, comment, material_feedback, pricing_feedback) ==
    [id |-> feedback_id,
     quote_id |-> quote_id,
     user_type |-> user_type,
     verdict |-> verdict,
     comment |-> comment,
     material_feedback |->
         IF TruthyDict(material_feedback) THEN material_feedback ELSE None,
     pricing_feedback |->
         IF TruthyDict(pricing_feedback) THEN pricing_feedback ELSE None,
     impact_score |-> calculate_impact_score(verdict, user_type, quote)]

\* the FeedbackResponse of process_feedback
FeedbackResponse(feedback_id, quote_id, quote, user_type, verdict, comment, material_feedback, pricing_feedback) ==
    [feedback_id |-> feedback_id,
     quote_id |-> quote_id,
     user_type |-> user_type,
     verdict |-> verdict,
     comment |-> comment,
     impact_score |-> calculate_impact_score(verdict, user_type, quote),
     learning_insights |->
         generate_learning_insights(quote, verdict, comment, material_feedback,
                                    pricing_feedback)]

----------------------------------------------------------------------------
(* Bounds and the values the calls are made with *)

MaxQuotes == 1      \* quotes the system stores

MaxFeedback == 2    \* feedback rows the system stores

MaxCatalog == 4     \* rows of the materials table the ranker is tried on

MaxLimit == 2       \* the greatest limit a search is made with

MaxTaskMaterials == 2   \* materials of a task priced on its own

\* a row of the materials table
Material(id, material_name, description, unit_price, unit, region, vendor, quality_score, embedding) ==
    [id |-> id, material_name |-> material_name, description |-> description,
     unit_price |-> unit_price, unit |-> unit, region |-> region,
     vendor |-> vendor, quality_score |-> quality_score,
     embedding |-> embedding, source_url |-> None]

\* rows like those scripts/generate_sample_data.py writes
CeramicTiles ==
    Material(1, "Ceramic tiles white", "glazed wall tiles", 2550, "m2",
             "Bretagne", Some("Leroy Merlin"), Some(8), None)

TileAdhesive ==
    Material(2, "Tile adhesive", "flexible adhesives for tiling", 1200, "bag",
             "Bretagne", Some("Castorama"), Some(6), Some(Embedding(Pad(<<4, 3>>))))

WallPaint ==
    Material(3, "Wall paint", "matt white paint", 3000, "l",
             "Corse", None, None, Some(Embedding(Pad(<<0, 5>>))))

\* a second paint that scores as WallPaint does on every query
CeilingPaint ==
    Material(4, "Ceiling paint", "matt white paint", 3000, "l",
             "Corse", None, None, Some(Embedding(Pad(<<0, 5>>))))

\* a luxury item outside the plausible price range, embedding not valid JSON
MarbleSlab ==
    Material(5, "Marble slab", "polished marble", 150000, "m2",
             "Corse", Some("Weldom Pro"), Some(10), Some(MalformedEmbedding))

\* a row whose quality score breaks the response model
BrokenRow ==
    Material(6, "Copper pipes", "water pipes", 800, "m",
             "Bretagne", Some("Brico Depot"), Some(11), None)

MaterialPool == {CeramicTiles, TileAdhesive, WallPaint, CeilingPaint, MarbleSlab, BrokenRow}

\* the sequences without repetition of at most n elements of S
RECURSIVE Arrangements(_, _)
Arrangements(S, n) ==
    IF n = 0 THEN {<<>>}
    ELSE LET shorter == Arrangements(S, n - 1)
         IN  shorter \cup UNION {{Append(a, x) : x \in S \ Range(a)} : a \in shorter}

\* rows whose stored embedding cannot be compared with a query vector: one
\* number too few, all zeros, not valid JSON
WhitePaintPrimer ==
    Material(8, "White paint primer", "undercoat", 1800, "l",
             "Corse", None, None, Some(Embedding(<<5>>)))

TilesSealant ==
    Material(9, "Tiles sealant", "grout sealer", 900, "l",
             "Bretagne", None, None, Some(Embedding(ZeroVector)))

FloorTiles ==
    Material(10, "Floor tiles grey", "porcelain tiles", 3200, "m2",
             "Bretagne", None, None, Some(MalformedEmbedding))

DegradedPool == {WhitePaintPrimer, TilesSealant, FloorTiles, TileAdhesive, WallPaint}

\* the materials tables the ranker is tried on
Catalogs == Arrangements(MaterialPool, MaxCatalog) \cup Arrangements(DegradedPool, 3)

\* the materials tables the whole system is run on
SeedCatalog == <<CeramicTiles, TileAdhesive, WallPaint>>

SystemCatalogs == {<<>>, SeedCatalog}

\* the seed followed by a row the response model rejects, and that row first
ProposalCatalogs == {Append(SeedCatalog, BrokenRow), <<BrokenRow, CeramicTiles>>}

Queries == {"tiles", "white paint"}

Regions == {None, Some("Bretagne"), Some("Corse")}

Limits == 1..MaxLimit

QualityScores == {None, Some(7)}

Transcripts ==
    {"Install ceramic tiles", "Paint the wall", "Fix it now", "Do it"}

ProjectTypes == {None, Some("New build")}

ProposalUserTypes == {"contractor"}

FeedbackUserTypes == {"contractor"}

Comments == {None, Some("Too expensive")}

PricingFeedbacks == {None}

QuoteIds == 1..(MaxQuotes + 1)

\* what CONFIDENCE_WEIGHTS may hold in the environment: nothing, weights that
\* sum to one, weights that do not
WeightValues == {0, 40, 100}

Envs ==
    {None} \cup
    {Some([semantic_similarity |-> a, regional_match |-> b,
           price_range |-> c, vendor_reliability |-> d]) :
        a \in WeightValues, b \in {25}, c \in WeightValues, d \in {15, 100}}

SystemEnvs == {None}

----------------------------------------------------------------------------
(* The system: the three services over one database *)

\* init_db(): the regional_pricing table seeded from settings
SeedRegionalPricing ==
    {[region |-> r, multiplier |-> regional_multipliers[r]] :
        r \in DOMAIN regional_multipliers}

NoResponse == [op |-> "none"]

\* no request received yet
NoExchange == [endpoint |-> "none"]

\* the number of coroutines that call the embedder
MaxCoroutines == 3

Coroutines == 1..MaxCoroutines

\* EmbeddingService.__init__, no coroutine started, no request received.  loads counts the
\* executions of _load_model_sync; a handle is named by the execution that
\* built it.
InitEmbedder ==
    /\ embedding_service = [model |-> None, _model_loaded |-> FALSE, loads |-> 0]
    /\ coroutines = [c \in Coroutines |-> [pc |-> "idle"]]
    /\ http = NoExchange

\* the tables after init_db(), the services constructed
InitTables ==
    /\ quotes = <<>>
    /\ tasks = <<>>
    /\ material_usage = <<>>
    /\ feedback = <<>>
    /\ vendor_reliability = <<>>
    /\ regional_pricing = SeedRegionalPricing
    /\ response = NoResponse
    /\ InitEmbedder

Init ==
    /\ confidence_weights \in {get_confidence_weights(LoadSettings(env)) : env \in SystemEnvs}
    /\ materials \in SystemCatalogs
    /\ InitTables

\* PricingService.generate_proposal once the tasks are extracted: the tasks
\* priced (those at the positions fails by the fallback), the rows added and
\* committed.  commitOk = FALSE: db.commit() raises, the handler rolls back
\* and re-raises.
generate_proposal(transcript, user_type, region, project_type, task_list, fails, commitOk) ==
        \E proposal \in {GenerateProposalResponse(
                              Len(quotes) + 1, transcript,
                              price_tasks(task_list, region, project_type, fails),
                              region, project_type)} :
            IF commitOk
            THEN /\ quotes' = Append(quotes, QuoteRow(proposal, user_type))
                 /\ tasks' = tasks \o TaskRows(proposal, Len(tasks) + 1)
                 /\ material_usage' =
                        material_usage
                            \o MaterialUsageRows(proposal, Len(material_usage) + 1)
                 /\ response' = [op |-> "generate_proposal", raised |-> FALSE,
                                 extracted |-> task_list, fails |-> fails,
                                 proposal |-> proposal]
                 /\ UNCHANGED <<confidence_weights, materials, feedback,
                                vendor_reliability, regional_pricing>>
            ELSE /\ response' = [op |-> "generate_proposal", raised |-> TRUE,
                                 error |-> "commit failed", before |-> tables]
                 /\ UNCHANGED <<confidence_weights, materials, tables>>

\* a call of PricingService.generate_proposal
GenerateProposal ==
    /\ Len(quotes) < MaxQuotes
    /\ UNCHANGED <<embedder, http>>
    /\ \E transcript \in Transcripts, region \in Regions, providerUp \in BOOLEAN :
        \E task_list \in extract_materials_and_tasks(confidence_weights, materials,
                                                     transcript, region, providerUp) :
        \E user_type \in ProposalUserTypes, project_type \in ProjectTypes,
           fails \in SUBSET DOMAIN task_list, commitOk \in BOOLEAN :
            generate_proposal(transcript, user_type, region, project_type,
                              task_list, fails, commitOk)

\* FeedbackService.process_feedback.  An unknown quote: ValueError, rollback,
\* re-raise.  Otherwise the feedback row and what _update_system_learning
\* changed are committed together, or rolled back together when the commit
\* raises.
process_feedback(quote_id, user_type, verdict, comment, pricing_feedback, queryOk, commitOk) ==
        LET found == find_quote(quotes, quote_id)
        IN  IF found = None
            THEN /\ response' = [op |-> "process_feedback", raised |-> TRUE,
                                 quote_id |-> quote_id, error |-> "not found",
                                 before |-> tables]
                 /\ UNCHANGED <<confidence_weights, materials, tables>>
            ELSE LET quote == found[1]
                     usages == SelectSeq(material_usage,
                                         LAMBDA u : u.quote_id = quote.id)
                     learned == update_system_learning(vendor_reliability,
                                                       regional_pricing, quote,
                                                       usages, verdict, queryOk)
                     feedback_id == Len(feedback) + 1
                 IN  IF commitOk
                     THEN /\ feedback' =
                                 Append(feedback,
                                        FeedbackRow(feedback_id, quote_id, quote,
                                                    user_type, verdict, comment,
                                                    None, pricing_feedback))
                          /\ vendor_reliability' = learned.vendor_reliability
                          /\ regional_pricing' = learned.regional_pricing
                          /\ quotes' = StoreQuote(quotes, learned.quote)
                          /\ response' =
                                 [op |-> "process_feedback", raised |-> FALSE,
                                  quote_id |-> quote_id,
                                  learning_failed |-> ~queryOk,
                                  before |-> tables,
                                  body |-> FeedbackResponse(feedback_id, quote_id,
                                                            quote, user_type, verdict,
                                                            comment, None,
                                                            pricing_feedback)]
                          /\ UNCHANGED <<confidence_weights, materials, tasks,
                                         material_usage>>
                     ELSE /\ response' = [op |-> "process_feedback", raised |-> TRUE,
                                          quote_id |-> quote_id, error |-> "commit failed",
                                          before |-> tables]
                          /\ UNCHANGED <<confidence_weights, materials, tables>>

\* a call of FeedbackService.process_feedback
ProcessFeedback ==
    /\ Len(feedback) < MaxFeedback
    /\ UNCHANGED <<embedder, http>>
    /\ \E quote_id \in QuoteIds, user_type \in FeedbackUserTypes,
          verdict \in VerdictTypes, comment \in Comments,
          pricing_feedback \in PricingFeedbacks,
          queryOk \in BOOLEAN, commitOk \in BOOLEAN :
        process_feedback(quote_id, user_type, verdict, comment, pricing_feedback,
                         queryOk, commitOk)

Next == GenerateProposal \/ ProcessFeedback

Spec == Init /\ [][Next]_vars

\* The service when only POST /generate-proposal is called, on an empty
\* materials table, the seed, and tables that hold a row the response model of
\* the ranker rejects
InitProposal ==
    /\ confidence_weights \in {get_confidence_weights(LoadSettings(env)) : env \in SystemEnvs}
    /\ materials \in SystemCatalogs \cup ProposalCatalogs
    /\ InitTables

NextProposal == GenerateProposal

SpecProposal == InitProposal /\ [][NextProposal]_vars

----------------------------------------------------------------------------
(* main.py: the three endpoints in front of the services.  A request is    *)
(* first validated by the framework against the declared parameters or the *)
(* request model (status 422), then handed to the handler.                 *)

\* The handlers' "except Exception as e: raise HTTPException(status_code=500,
\* ...)" around their whole body: whatever is raised inside the try, an
\* HTTPException with status_code included, leaves as status 500.
except_exception(status_code) == 500

Exchange(endpoint, request, status_code, invoked) ==
    [endpoint |-> endpoint, request |-> request, status_code |-> status_code,
     invoked |-> invoked]

\* GET /material-price: empty, blank and plain queries, a limit in and out of
\* the declared range
MaterialPriceRequests ==
    {[query |-> query, region |-> region, limit |-> limit] :
        query \in {"", "   ", "tiles"}, region \in {None}, limit \in {1, 25}}

\* Query(5, ge=1, le=20) of get_material_price
ValidMaterialPriceRequest(request) == request.limit \in 1..20

\* main.get_material_price
GetMaterialPrice ==
    /\ \E request \in MaterialPriceRequests, providerUp \in BOOLEAN :
        IF ~ValidMaterialPriceRequest(request)
        THEN /\ http' = Exchange("GET /material-price", request, 422, FALSE)
             /\ UNCHANGED response
        ELSE IF Strip(request.query) = ""
        THEN /\ http' = Exchange("GET /material-price", request,
                                  except_exception(400), FALSE)
             /\ UNCHANGED response
        ELSE \E result \in {search_materials(confidence_weights, materials,
                                              request.query, request.region, None,
                                              None, None, request.limit,
                                              providerUp)} :
             /\ response' = [op |-> "search_materials", call |-> request,
                             result |-> result]
             /\ http' = Exchange("GET /material-price", request,
                                  IF result.ok THEN 200 ELSE except_exception(500),
                                  TRUE)
    /\ UNCHANGED <<confidence_weights, materials, tables, embedder>>

\* POST /generate-proposal bodies: empty, blank, short and plain transcripts
ProposalRequests ==
    {[transcript |-> transcript, user_type |-> user_type, region |-> region,
      project_type |-> project_type] :
        transcript \in {"", "          ", "Do it", "Install ceramic tiles",
                        "Paint the wall"},
        user_type \in {"contractor", "plumber"},
        region \in {None, Some("Bretagne")},
        project_type \in {None, Some("New build")}}

\* GenerateProposalRequest: min_length, max_length, validate_transcript and
\* the UserType enum
ValidGenerateProposalRequest(request) ==
    /\ Len(request.transcript) \in 10..2000
    /\ Len(Strip(request.transcript)) >= 10
    /\ request.user_type \in UserTypes
    /\ request.region # None => Len(request.region[1]) <= 100
    /\ request.project_type # None => Len(request.project_type[1]) <= 100

\* main.generate_proposal: the service is called with the transcript and the
\* user type only
PostGenerateProposal ==
    /\ Len(quotes) < MaxQuotes
    /\ UNCHANGED embedder
    /\ \E request \in ProposalRequests :
        IF ~ValidGenerateProposalRequest(request)
        THEN /\ http' = Exchange("POST /generate-proposal", request, 422, FALSE)
             /\ UNCHANGED <<confidence_weights, materials, tables, response>>
        ELSE IF Strip(request.transcript) = ""
        THEN /\ http' = Exchange("POST /generate-proposal", request,
                                  except_exception(400), FALSE)
             /\ UNCHANGED <<confidence_weights, materials, tables, response>>
        ELSE \E providerUp \in BOOLEAN :
             \E task_list \in extract_materials_and_tasks(
                                   confidence_weights, materials,
                                   request.transcript, None, providerUp) :
             \E fails \in SUBSET DOMAIN task_list, commitOk \in BOOLEAN :
                 /\ generate_proposal(request.transcript, request.user_type, None,
                                      None, task_list, fails, commitOk)
                 /\ http' = Exchange("POST /generate-proposal", request,
                                      IF response'.raised
                                      THEN except_exception(500) ELSE 200,
                                      TRUE)

\* the quote_id of a feedback body: a string that is or is not a UUID; id is
\* the quote a UUID names
QuoteIdField(text, id) == [text |-> text, id |-> id]

\* POST /feedback bodies: quote_id missing, empty, malformed, well-formed; a
\* verdict in and out of the enum
FeedbackRequests ==
    {[quote_id |-> quote_id, user_type |-> "contractor", verdict |-> verdict,
      comment |-> None] :
        quote_id \in {None, Some(QuoteIdField("", 0)), Some(QuoteIdField("abc", 0))}
                        \cup {Some(QuoteIdField("uuid", id)) : id \in QuoteIds},
        verdict \in {"accepted", "bogus"}}

\* FeedbackRequest: quote_id required, validate_quote_id, the UserType and
\* VerdictType enums
ValidFeedbackRequest(request) ==
    /\ request.quote_id # None
    /\ request.quote_id[1].text = "uuid"
    /\ request.user_type \in UserTypes
    /\ request.verdict \in VerdictTypes

\* main.submit_feedback: the service is called without material_feedback and
\* pricing_feedback
PostFeedback ==
    /\ Len(feedback) < MaxFeedback
    /\ UNCHANGED embedder
    /\ \E request \in FeedbackRequests, queryOk \in BOOLEAN, commitOk \in BOOLEAN :
        IF ~ValidFeedbackRequest(request)
        THEN /\ http' = Exchange("POST /feedback", request, 422, FALSE)
             /\ UNCHANGED <<confidence_weights, materials, tables, response>>
        ELSE IF request.quote_id[1].text = ""
        THEN /\ http' = Exchange("POST /feedback", request,
                                  except_exception(400), FALSE)
             /\ UNCHANGED <<confidence_weights, materials, tables, response>>
        ELSE IF request.verdict
                    \notin {"accepted", "rejected", "overpriced", "underpriced",
                            "modified"}
        THEN /\ http' = Exchange("POST /feedback", request,
                                  except_exception(400), FALSE)
             /\ UNCHANGED <<confidence_weights, materials, tables, response>>
        ELSE /\ process_feedback(request.quote_id[1].id, request.user_type,
                                 request.verdict, request.comment, None,
                                 queryOk, commitOk)
             /\ http' = Exchange("POST /feedback", request,
                                  IF response'.raised
                                  THEN except_exception(500) ELSE 200,
                                  TRUE)

NextHandlers == GetMaterialPrice \/ PostGenerateProposal \/ PostFeedback

SpecHandlers == Init /\ [][NextHandlers]_vars

----------------------------------------------------------------------------
(* The material ranker on its own, over every small materials table *)

\* the calls of search_materials that main.get_material_price can make
SearchCalls ==
    {[op |-> "call", query |-> query, region |-> region,
      quality_score |-> quality_score, limit |-> limit, providerUp |-> providerUp] :
        query \in Queries, region \in Regions, quality_score \in QualityScores,
        limit \in Limits, providerUp \in BOOLEAN}

InitSearch ==
    /\ confidence_weights = get_confidence_weights(LoadSettings(None))
    /\ materials \in Catalogs
    /\ quotes = <<>>
    /\ tasks = <<>>
    /\ material_usage = <<>>
    /\ feedback = <<>>
    /\ vendor_reliability = <<>>
    /\ regional_pricing = SeedRegionalPricing
    /\ response \in SearchCalls
    /\ InitEmbedder

\* MaterialService.search_materials answers the call
SearchMaterials ==
    /\ response.op = "call"
    /\ UNCHANGED <<embedder, http>>
    /\ response' =
           [op |-> "search_materials", call |-> response,
            result |-> search_materials(confidence_weights, materials,
                                        response.query, response.region, None,
                                        response.quality_score, None,
                                        response.limit, response.providerUp)]
    /\ UNCHANGED <<confidence_weights, materials, tables>>

NextSearch == SearchMaterials

SpecSearch == InitSearch /\ [][NextSearch]_vars

----------------------------------------------------------------------------
(* The vendor-reliability store and the ranker over one database *)

\* the updates one record receives at most
MaxVendorQuotes == 2

VendorNames == {"Leroy Merlin", "Castorama"}

VendorCatalogs == {SeedCatalog, <<TileAdhesive, CeramicTiles, FloorTiles>>}

\* the searches made between the updates
VendorSearchCalls ==
    {[op |-> "call", query |-> query, region |-> region, quality_score |-> None,
      limit |-> limit, providerUp |-> TRUE] :
        query \in Queries, region \in {None, Some("Bretagne")}, limit \in {1, 3}}

InitVendors ==
    /\ confidence_weights = get_confidence_weights(LoadSettings(None))
    /\ materials \in VendorCatalogs
    /\ InitTables

\* a call of database.update_vendor_reliability(db, vendor_name, accepted)
UpdateVendorReliability ==
    /\ \E vendor_name \in VendorNames, accepted \in BOOLEAN, committed \in BOOLEAN :
        /\ \A r \in DOMAIN vendor_reliability :
               vendor_reliability[r].vendor_name = vendor_name
                   => vendor_reliability[r].total_quotes < MaxVendorQuotes
        /\ vendor_reliability' =
               database_update_vendor_reliability(vendor_reliability, vendor_name,
                                                  accepted, committed)
    /\ UNCHANGED <<confidence_weights, materials, quotes, tasks, material_usage,
                   feedback, regional_pricing, response, embedder, http>>

\* a call of MaterialService.search_materials on the database as it is
RankMaterials ==
    /\ \E call \in VendorSearchCalls :
        response' =
            [op |-> "search_materials", call |-> call,
             result |-> search_materials(confidence_weights, materials, call.query,
                                         call.region, None, call.quality_score, None,
                                         call.limit, call.providerUp)]
    /\ UNCHANGED <<confidence_weights, materials, tables, embedder, http>>

NextVendors == UpdateVendorReliability \/ RankMaterials

SpecVendors == InitVendors /\ [][NextVendors]_vars

----------------------------------------------------------------------------
(* The confidence engine on its own, under every environment *)

Similarities == {0, 45, 90, 100}

\* unit prices at and around the ends of the two plausibility bands (cents)
ScorePrices == {-100, 0, 1, 9, 10, 100000, 100001, 1000000, 1000001}

\* vendor strings: empty, unknown, a known name in another case and inside a
\* longer string, two known names
ScoreVendors ==
    {Some(""), Some("Point P"), Some("LEROY MERLIN Rennes"),
     Some("Castorama et Leroy Merlin"), Some("weldom castorama")}

\* the rows the engine is tried on: the pool, and rows that differ from
\* CeramicTiles by the price, the vendor, or an empty region
ScoreMaterials ==
    MaterialPool
        \cup {[CeramicTiles EXCEPT !.unit_price = price] : price \in ScorePrices}
        \cup {[CeramicTiles EXCEPT !.vendor = vendor] : vendor \in ScoreVendors}
        \cup {[CeramicTiles EXCEPT !.region = ""]}

\* requested regions: none, empty, that of a row, the same in another case, a
\* part of it, a longer name that contains it, another
ScoreRegions ==
    Regions \cup {Some(""), Some("bretagne"), Some("Bret"), Some("Haute-Corse"),
                  Some("Normandie")}

ScoreCalls ==
    {[op |-> "call", material |-> m, similarity_score |-> similarity_score,
      region |-> region] :
        m \in ScoreMaterials, similarity_score \in Similarities,
        region \in ScoreRegions}

InitConfidence ==
    /\ confidence_weights \in {get_confidence_weights(LoadSettings(env)) : env \in Envs}
    /\ materials = <<>>
    /\ quotes = <<>>
    /\ tasks = <<>>
    /\ material_usage = <<>>
    /\ feedback = <<>>
    /\ vendor_reliability = <<>>
    /\ regional_pricing = SeedRegionalPricing
    /\ response \in ScoreCalls
    /\ InitEmbedder

\* MaterialService._calculate_confidence_score answers the call
ScoreMaterial ==
    /\ response.op = "call"
    /\ UNCHANGED <<embedder, http>>
    /\ response' =
           [op |-> "calculate_confidence_score", call |-> response,
            unclamped |-> total_confidence(confidence_weights, response.material,
                                           response.similarity_score, response.region),
            score |-> calculate_confidence_score(confidence_weights, response.material,
                                                 response.similarity_score,
                                                 response.region)]
    /\ UNCHANGED <<confidence_weights, materials, tables>>

NextConfidence == ScoreMaterial

SpecConfidence == InitConfidence /\ [][NextConfidence]_vars

----------------------------------------------------------------------------
(* The pricing of one task on its own, over every configured region *)

FreeSample ==
    Material(7, "Paint sample", "free sample", 0, "piece", "Corse", None, None, None)

\* the materials a task to price can hold: search results
PricingPool ==
    {MaterialPriceResponse([material |-> m, similarity_score |-> 90,
                            confidence_score |-> 7000]) :
        m \in (MaterialPool \ {BrokenRow}) \cup {FreeSample}}

PricingRegions ==
    {None, Some("Paris")} \cup {Some(r) : r \in DOMAIN regional_multipliers}

Durations == {"1 day", "2 days", "3 days"}

PricingCalls ==
    {[op |-> "call",
      task_data |-> [type |-> type, materials |-> found, duration |-> duration],
      region |-> region, raises |-> raises] :
        type \in Range(TaskTypes) \cup {"general"},
        found \in Arrangements(PricingPool, MaxTaskMaterials),
        duration \in Durations, region \in PricingRegions, raises \in BOOLEAN}

InitPricing ==
    /\ confidence_weights = get_confidence_weights(LoadSettings(None))
    /\ materials = <<>>
    /\ quotes = <<>>
    /\ tasks = <<>>
    /\ material_usage = <<>>
    /\ feedback = <<>>
    /\ vendor_reliability = <<>>
    /\ regional_pricing = SeedRegionalPricing
    /\ response \in PricingCalls
    /\ InitEmbedder

\* PricingService._calculate_task_pricing answers the call
PriceTask ==
    /\ response.op = "call"
    /\ UNCHANGED <<embedder, http>>
    /\ response' =
           [op |-> "calculate_task_pricing", call |-> response,
            task |-> calculate_task_pricing(response.task_data, response.region,
                                            None, response.raises)]
    /\ UNCHANGED <<confidence_weights, materials, tables>>

NextPricing == PriceTask

SpecPricing == InitPricing /\ [][NextPricing]_vars

----------------------------------------------------------------------------
(* The embedding provider under concurrent callers.  The services are      *)
(* module-level singletons of main.py and every request is a coroutine of  *)
(* one event loop: a coroutine runs alone up to its next await of          *)
(* run_in_executor, where any other coroutine may run.                     *)

EmbedderMethods == {"get_embedding", "get_embeddings_batch"}

EmbedderTexts == {"", "tiles"}

InitEmbedding ==
    /\ confidence_weights = get_confidence_weights(LoadSettings(None))
    /\ materials = <<>>
    /\ InitTables

\* what a caller gets for text: one vector, or a list of vectors for a batch
EmbedderResult(method, vector) ==
    IF method = "get_embedding" THEN vector ELSE <<vector>>

\* get_embedding / get_embeddings_batch once _load_model has returned: a
\* blank text is answered with zeros at once, inference is awaited otherwise
AfterLoadModel(c, method, text) ==
    IF text = "" \/ Strip(text) = ""
    THEN [coroutines EXCEPT ![c] =
              [pc |-> "returned", method |-> method, text |-> text,
               result |-> EmbedderResult(method, ZeroVector)]]
    ELSE [coroutines EXCEPT ![c] =
              [pc |-> "encoding", method |-> method, text |-> text]]

\* A coroutine calls the embedder with the texts <<text>>.  _load_model
\* returns at once when _model_loaded is set; otherwise it hands
\* _load_model_sync to the executor and awaits it.
CallEmbedder(c) ==
    /\ coroutines[c].pc = "idle"
    /\ \E method \in EmbedderMethods, text \in EmbedderTexts :
        IF embedding_service._model_loaded
        THEN /\ coroutines' = AfterLoadModel(c, method, text)
             /\ UNCHANGED embedding_service
        ELSE /\ embedding_service' =
                    [embedding_service EXCEPT !.loads = embedding_service.loads + 1]
             /\ coroutines' =
                    [coroutines EXCEPT ![c] =
                         [pc |-> "loading", method |-> method, text |-> text,
                          handle |-> embedding_service.loads + 1]]
    /\ UNCHANGED <<confidence_weights, materials, tables, response, http>>

\* _load_model_sync of coroutine c has ended.  loaded: self.model is assigned
\* the new handle and _model_loaded is set.  Otherwise _load_model re-raises
\* and the caller's handler answers with zeros.
LoadModelReturns(c) ==
    /\ coroutines[c].pc = "loading"
    /\ \E loaded \in BOOLEAN :
        IF loaded
        THEN /\ embedding_service' =
                    [embedding_service EXCEPT !.model = Some(coroutines[c].handle),
                                              !._model_loaded = TRUE]
             /\ coroutines' = AfterLoadModel(c, coroutines[c].method,
                                             coroutines[c].text)
        ELSE /\ coroutines' =
                    [coroutines EXCEPT ![c] =
                         [pc |-> "returned", method |-> coroutines[c].method,
                          text |-> coroutines[c].text,
                          result |-> EmbedderResult(coroutines[c].method, ZeroVector)]]
             /\ UNCHANGED embedding_service
    /\ UNCHANGED <<confidence_weights, materials, tables, response, http>>

\* inference of coroutine c has ended in the executor
EncodeReturns(c) ==
    /\ coroutines[c].pc = "encoding"
    /\ \E providerUp \in BOOLEAN :
        coroutines' =
            [coroutines EXCEPT ![c] =
                 [pc |-> "returned", method |-> coroutines[c].method,
                  text |-> coroutines[c].text,
                  result |-> EmbedderResult(coroutines[c].method,
                                            get_embedding(coroutines[c].text,
                                                          providerUp))]]
    /\ UNCHANGED <<confidence_weights, materials, tables, response,
                   embedding_service, http>>

NextEmbedding ==
    \E c \in Coroutines : CallEmbedder(c) \/ LoadModelReturns(c) \/ EncodeReturns(c)

SpecEmbedding == InitEmbedding /\ [][NextEmbedding]_vars

----------------------------------------------------------------------------
(* The impact score on its own, over quotes of every confidence and total *)

\* one euro of a total estimate
Euro == 100 * RateScale * RateScale

\* Quote.confidence_score: 0.0, 0.5, 0.9 and 1.0
ImpactConfidences == {0, ConfidenceOne \div 2, 9 * (ConfidenceOne \div 10), ConfidenceOne}

\* Quote.total_estimate: below, at and above the cap of the value factor
ImpactTotals == {0, 500 * Euro, 1000 * Euro, 2000 * Euro, 3000 * Euro}

ImpactQuote(confidence_score, total_estimate) ==
    [confidence_score |-> confidence_score, total_estimate |-> total_estimate]

\* the calls of _calculate_impact_score that process_feedback can make
ImpactCalls ==
    {[op |-> "call", verdict |-> verdict, user_type |-> user_type,
      quote |-> ImpactQuote(confidence_score, total_estimate)] :
        verdict \in VerdictTypes, user_type \in UserTypes,
        confidence_score \in ImpactConfidences, total_estimate \in ImpactTotals}

InitImpact ==
    /\ confidence_weights = get_confidence_weights(LoadSettings(None))
    /\ materials = <<>>
    /\ quotes = <<>>
    /\ tasks = <<>>
    /\ material_usage = <<>>
    /\ feedback = <<>>
    /\ vendor_reliability = <<>>
    /\ regional_pricing = SeedRegionalPricing
    /\ response \in ImpactCalls
    /\ InitEmbedder

\* FeedbackService._calculate_impact_score answers the call
ScoreFeedback ==
    /\ response.op = "call"
    /\ UNCHANGED <<embedder, http>>
    /\ response' =
           [op |-> "calculate_impact_score", call |-> response,
            impact_score |-> calculate_impact_score(response.verdict,
                                                    response.user_type,
                                                    response.quote)]
    /\ UNCHANGED <<confidence_weights, materials, tables>>

NextImpact == ScoreFeedback

SpecImpact == InitImpact /\ [][NextImpact]_vars

----------------------------------------------------------------------------
(* The task extractor on its own *)

\* materials tables: empty, the seed, the seed followed by a row the response
\* model rejects, and that row first
ExtractCatalogs ==
    {<<>>, SeedCatalog, Append(SeedCatalog, BrokenRow), <<BrokenRow, CeramicTiles>>}

\* transcripts that between them name each of the five categories
ExtractTranscripts == Transcripts \cup {"Wire the kitchen door"}

\* the calls of _extract_materials_and_tasks that generate_proposal can make
ExtractCalls ==
    {[op |-> "call", transcript |-> transcript, region |-> region,
      providerUp |-> providerUp] :
        transcript \in ExtractTranscripts, region \in Regions, providerUp \in BOOLEAN}

InitExtract ==
    /\ confidence_weights = get_confidence_weights(LoadSettings(None))
    /\ materials \in ExtractCatalogs
    /\ quotes = <<>>
    /\ tasks = <<>>
    /\ material_usage = <<>>
    /\ feedback = <<>>
    /\ vendor_reliability = <<>>
    /\ regional_pricing = SeedRegionalPricing
    /\ response \in ExtractCalls
    /\ InitEmbedder

\* PricingService._extract_materials_and_tasks answers the call
ExtractTasks ==
    /\ response.op = "call"
    /\ UNCHANGED <<embedder, http>>
    /\ \E task_list \in extract_materials_and_tasks(confidence_weights, materials,
                                                    response.transcript,
                                                    response.region,
                                                    response.providerUp) :
        response' = [op |-> "extract_materials_and_tasks", call |-> response,
                     tasks |-> task_list]
    /\ UNCHANGED <<confidence_weights, materials, tables>>

NextExtract == ExtractTasks

SpecExtract == InitExtract /\ [][NextExtract]_vars

----------------------------------------------------------------------------
(* The insight generator on its own *)

\* Quote.confidence_score: 0.3, 0.6 and 0.9
InsightConfidences ==
    {3 * (ConfidenceOne \div 10), 6 * (ConfidenceOne \div 10), 9 * (ConfidenceOne \div 10)}

\* Quote.region: NULL, empty, set
InsightRegions == {None, Some(""), Some("Bretagne")}

InsightComments == {None, Some(""), Some("Too expensive"), Some("Thanks")}

\* material_feedback: absent, an empty dict, a dict of one item
InsightMaterialFeedbacks ==
    {None, Some(<<>>), Some(<< <<"tiles", "Too expensive">> >>),
     Some(<< <<"tiles", "fine">> >>)}

InsightPricingFeedbacks == {None, Some(<<>>), Some(<< <<"labor", "ok">> >>)}

InsightQuote(confidence_score, region) ==
    [confidence_score |-> confidence_score, region |-> region]

\* the calls of _generate_learning_insights
InsightCalls ==
    {[op |-> "call", quote |-> InsightQuote(confidence_score, region),
      verdict |-> verdict, comment |-> comment,
      material_feedback |-> material_feedback,
      pricing_feedback |-> pricing_feedback] :
        confidence_score \in InsightConfidences, region \in InsightRegions,
        verdict \in VerdictTypes, comment \in InsightComments,
        material_feedback \in InsightMaterialFeedbacks,
        pricing_feedback \in InsightPricingFeedbacks}

InitInsights ==
    /\ confidence_weights = get_confidence_weights(LoadSettings(None))
    /\ materials = <<>>
    /\ quotes = <<>>
    /\ tasks = <<>>
    /\ material_usage = <<>>
    /\ feedback = <<>>
    /\ vendor_reliability = <<>>
    /\ regional_pricing = SeedRegionalPricing
    /\ response \in InsightCalls
    /\ InitEmbedder

\* FeedbackService._generate_learning_insights answers the call
GenerateInsights ==
    /\ response.op = "call"
    /\ UNCHANGED <<embedder, http>>
    /\ response' =
           [op |-> "generate_learning_insights", call |-> response,
            learning_insights |->
                generate_learning_insights(response.quote, response.verdict,
                                           response.comment,
                                           response.material_feedback,
                                           response.pricing_feedback)]
    /\ UNCHANGED <<confidence_weights, materials, tables>>

NextInsights == GenerateInsights

SpecInsights == InitInsights /\ [][NextInsights]_vars

----------------------------------------------------------------------------
(* Properties *)

QuoteIdsStored == {quotes[i].id : i \in DOMAIN quotes}

\* C1: process_feedback on a quote id that no stored Quote has raises "not
\* found" to the caller and leaves every table as it was (no Feedback row, no
\* VendorReliability row created or modified); and every Feedback row refers
\* to a stored Quote.
C1_UnknownQuoteNotFound ==
    /\ (response.op = "process_feedback" /\ response.quote_id \notin QuoteIdsStored)
           => /\ response.raised
              /\ response.error = "not found"
              /\ response.before = tables
    /\ \A i \in DOMAIN feedback : feedback[i].quote_id \in QuoteIdsStored

\* a call with an unknown id on a database that holds a quote and a feedback
C1_Witness ==
    /\ response.op = "process_feedback"
    /\ response.raised
    /\ response.error = "not found"
    /\ quotes # <<>>
    /\ feedback # <<>>

\* the subtotal recomputed from the tasks a proposal returns (1/2000)
ReturnedSubtotal(proposal) ==
    SumSeq([i \in DOMAIN proposal.tasks |->
               SumSeq([k \in DOMAIN proposal.tasks[i].materials |->
                          proposal.tasks[i].materials[k].total_price]) * RateScale
                   + proposal.tasks[i].labor_cost])

ProposalReturned == response.op = "generate_proposal" /\ ~response.raised

\* C2: for every proposal generate_proposal returns, total_estimate is
\* S + S * vat_rate + S * margin_percentage with S the sum over the returned
\* tasks of their materials' total_price and their labor_cost, fallback tasks
\* included.
C2_TotalFromReturnedTasks ==
    ProposalReturned =>
        LET proposal == response.proposal
            S == ReturnedSubtotal(proposal)
        IN  proposal.total_estimate =
                S * RateScale + S * proposal.vat_rate + S * proposal.margin_percentage

\* a proposal of two tasks or more, one a fallback and one with materials
C2_Witness ==
    /\ ProposalReturned
    /\ Len(response.proposal.tasks) >= 2
    /\ response.fails # {}
    /\ \E i \in DOMAIN response.proposal.tasks :
           i \notin response.fails /\ response.proposal.tasks[i].materials # <<>>

\* C3: in a proposal priced with regional multiplier m every
\* MaterialItem.total_price is quantity * unit_price * m, the subtotal is the
\* sum of the region-adjusted material and labor cost of each task, and a task
\* that did not fall back has margin_protected_price = (its share of the
\* subtotal) * (1 + base_margin).
C3_RegionAdjustedEverywhere ==
    ProposalReturned =>
        LET proposal == response.proposal
            m == get_regional_multiplier(proposal.region)
            Share(task) == task_materials_cost(task) * RateScale + task.labor_cost
            AdjustedCost(task) == task_materials_cost(task) * m + task.labor_cost
            subtotal == SumSeq([i \in DOMAIN proposal.tasks |->
                                   AdjustedCost(proposal.tasks[i])])
        IN  /\ \A i \in DOMAIN proposal.tasks :
                   \A k \in DOMAIN proposal.tasks[i].materials :
                       LET item == proposal.tasks[i].materials[k]
                       IN  item.total_price * RateScale
                               = item.quantity * item.unit_price * m
            /\ proposal.total_estimate =
                   subtotal * (RateScale + proposal.vat_rate + proposal.margin_percentage)
            /\ \A i \in DOMAIN proposal.tasks :
                   i \notin response.fails =>
                       proposal.tasks[i].margin_protected_price
                           = Share(proposal.tasks[i]) * (RateScale + base_margin)

PricingAnswered == response.op = "calculate_task_pricing"

\* C4: every Task _calculate_task_pricing returns, priced or fallback, under
\* every configured multiplier and with non-negative prices, has
\* margin_protected_price >= the sum of its materials' total_price + its
\* labor_cost.
C4_PriceCoversCost ==
    PricingAnswered =>
        response.task.margin_protected_price
            >= (task_materials_cost(response.task) * RateScale
                    + response.task.labor_cost) * RateScale

\* a priced task with paid materials in a region whose multiplier is below 1
C4_Witness ==
    /\ PricingAnswered
    /\ ~response.call.raises
    /\ get_regional_multiplier(response.call.region) < RateScale
    /\ task_materials_cost(response.task) > 0

SearchAnswered == response.op = "search_materials"

\* the rows of the materials table that pass the filters of the answered call
Matching ==
    {i \in DOMAIN materials :
        MatchesFilters(materials[i], response.call.region, None,
                       response.call.quality_score, None)}

\* C5: search_materials returns at most limit results, and the empty list
\* without raising when storage has no candidate.
C5_AtMostLimit ==
    SearchAnswered =>
        /\ Len(response.result.results) <= response.call.limit
        /\ Matching = {} => (response.result.ok /\ response.result.results = <<>>)

\* more candidates than the limit, and exactly limit results
C5_Witness ==
    /\ SearchAnswered
    /\ response.result.ok
    /\ Cardinality(Matching) > response.call.limit
    /\ Len(response.result.results) = response.call.limit

\* the candidates storage returns: the first 3 * limit matching rows
Fetched ==
    {i \in Matching :
        Cardinality({j \in Matching : j < i}) < 3 * response.call.limit}

\* the confidence of each row for the answered call
Confidences ==
    LET query_embedding ==
            get_embedding(response.call.query, response.call.providerUp)
    IN  [i \in DOMAIN materials |->
            calculate_confidence_score(
                confidence_weights, materials[i],
                calculate_similarity_score(query_embedding, materials[i],
                                           response.call.query),
                response.call.region)]

\* row i ranks before row j: greater confidence, or equal and earlier
RanksBefore(confidence, i, j) ==
    \/ confidence[i] > confidence[j]
    \/ confidence[i] = confidence[j] /\ i < j

\* C6: what search_materials returns is built from the first limit of the
\* fetched candidates (at most 3 * limit) in descending order of confidence,
\* candidates of equal confidence in the order storage returned them.
C6_TopByConfidenceStable ==
    (SearchAnswered /\ response.result.ok) =>
        \A fetched \in {Fetched}, confidence \in {Confidences} :
            LET ranked == response.result.ranked
            IN  /\ Len(ranked) = Min(response.call.limit, Cardinality(fetched))
                /\ \A k \in DOMAIN ranked :
                       \E i \in fetched :
                           /\ ranked[k].material = materials[i]
                           /\ ranked[k].confidence_score = confidence[i]
                           /\ Cardinality({j \in fetched :
                                              RanksBefore(confidence, j, i)}) = k - 1

\* storage cut at 3 * limit, the ranking cut at limit, and the last returned
\* row tied with a later fetched row
C6_Witness ==
    /\ SearchAnswered
    /\ response.result.ok
    /\ Cardinality(Matching) > Cardinality(Fetched)
    /\ Cardinality(Fetched) > Len(response.result.ranked)
    /\ \E confidence \in {Confidences} :
           \E i, j \in Fetched :
               /\ i < j
               /\ confidence[i] = confidence[j]
               /\ response.result.ranked[Len(response.result.ranked)].material
                      = materials[i]

ScoreAnswered == response.op = "calculate_confidence_score"

\* C7: _calculate_confidence_score is in [0, 1] under the configured weights,
\* whatever the material, the similarity and the region.
C7_ScoreInUnitInterval ==
    ScoreAnswered => (0 <= response.score /\ response.score <= 10000)

\* the weighted sum exceeded 1 and was clamped
C7_Witness ==
    /\ ScoreAnswered
    /\ response.unclamped > 10000
    /\ response.score = 10000

WeightSum(weights) ==
    weights.semantic_similarity + weights.regional_match
        + weights.price_range + weights.vendor_reliability

\* C8: a configuration whose four weights do not sum to 1.0 is rejected at
\* load, so the confidence engine is never used with such weights.
C8_WeightsSumToOne ==
    ScoreAnswered => WeightSum(confidence_weights) = 100

\* the vendors whose materials a quote used.  A material_usage row keeps no
\* material id; it is matched to the catalog row of its unit price.
VendorsOfQuote(quote_id) ==
    {materials[i].vendor[1] : i \in
        {i \in DOMAIN materials :
            /\ materials[i].vendor # None
            /\ \E u \in DOMAIN material_usage :
                   /\ material_usage[u].quote_id = quote_id
                   /\ material_usage[u].unit_price = materials[i].unit_price}}

\* the feedback events processed on quotes that used materials of vendor v
EventsOf(v) == {i \in DOMAIN feedback : v \in VendorsOfQuote(feedback[i].quote_id)}

AcceptedOf(v) == {i \in EventsOf(v) : feedback[i].verdict = "accepted"}

AllVendors == {materials[i].vendor[1] : i \in {i \in DOMAIN materials : materials[i].vendor # None}}

\* C9: after N >= 1 processed feedback events on quotes whose materials come
\* from vendor v, A of them accepted, the VendorReliability record of v has
\* total_quotes = N, accepted_quotes = A and reliability_score = A / N.
C9_ReliabilityIsAcceptedOverTotal ==
    \A v \in AllVendors :
        EventsOf(v) # {} =>
            \E r \in DOMAIN vendor_reliability :
                /\ vendor_reliability[r].vendor_name = v
                /\ vendor_reliability[r].total_quotes = Cardinality(EventsOf(v))
                /\ vendor_reliability[r].accepted_quotes = Cardinality(AcceptedOf(v))
                /\ vendor_reliability[r].reliability_score[1] * Cardinality(EventsOf(v))
                       = Cardinality(AcceptedOf(v)) * vendor_reliability[r].reliability_score[2]

\* the sum of a counter over the records of vendor v
CounterOf(v, counter) ==
    SumSeq([r \in DOMAIN vendor_reliability |->
               IF vendor_reliability[r].vendor_name = v
               THEN vendor_reliability[r][counter] ELSE 0])

\* C10: when two or more feedback events update the record of the same
\* vendor, none of the updates is lost: after all of them committed,
\* total_quotes has grown by the number of events and accepted_quotes by the
\* number of accepted ones.
C10_NoLostUpdate ==
    \A v \in AllVendors :
        Cardinality(EventsOf(v)) >= 2 =>
            /\ CounterOf(v, "total_quotes") = Cardinality(EventsOf(v))
            /\ CounterOf(v, "accepted_quotes") = Cardinality(AcceptedOf(v))

\* C11: the embedding model is loaded at most once.  Whatever the interleaving
\* of the coroutines that call the embedder, _load_model_sync is executed at
\* most one time, so the handle, once assigned, is never assigned again.
C11_ModelLoadedAtMostOnce == embedding_service.loads <= 1

ImpactAnswered == response.op = "calculate_impact_score"

\* the impact score of the answered call's role and quote under verdict
ImpactUnder(verdict) ==
    calculate_impact_score(verdict, response.call.user_type, response.call.quote)

\* the score does not decrease when the answered call's quote total grows
ImpactMonotoneInTotal ==
    \A total_estimate \in ImpactTotals :
        response.call.quote.total_estimate <= total_estimate
            => response.impact_score <=
                   calculate_impact_score(
                       response.call.verdict, response.call.user_type,
                       ImpactQuote(response.call.quote.confidence_score,
                                   total_estimate))

\* C12 as stated: for fixed verdict, role and confidence the impact score is
\* non-decreasing in the quote total, and for every quote of total >= 0 and
\* every role the score of "rejected" is strictly greater than that of
\* "accepted".
C12_MonotoneAndRejectedAboveAccepted ==
    ImpactAnswered =>
        /\ ImpactMonotoneInTotal
        /\ response.call.verdict = "rejected"
               => response.impact_score > ImpactUnder("accepted")

\* C12 amended: the score is non-decreasing in the quote total; "rejected"
\* scores strictly above "accepted" on every quote of positive total, and
\* both score 0.0 on a quote of total 0.
C12_MonotoneAndRejectedAboveAcceptedPositive ==
    ImpactAnswered =>
        /\ ImpactMonotoneInTotal
        /\ response.call.verdict = "rejected"
               => IF response.call.quote.total_estimate > 0
                  THEN response.impact_score > ImpactUnder("accepted")
                  ELSE response.impact_score = 0 /\ ImpactUnder("accepted") = 0

\* a rejected quote of positive total, below the cap, has been scored
C12_Witness ==
    /\ ImpactAnswered
    /\ response.call.verdict = "rejected"
    /\ response.call.quote.total_estimate = 500 * Euro
    /\ response.impact_score > ImpactUnder("accepted")
    /\ ImpactUnder("accepted") > 0

\* the verdict and role weights the claim C13 lists, in tenths
StatedVerdictWeight(verdict) ==
    CASE verdict = "rejected" -> 10
      [] verdict = "overpriced" -> 8
      [] verdict = "underpriced" -> 8
      [] verdict = "modified" -> 6
      [] verdict = "accepted" -> 3

StatedRoleWeight(user_type) ==
    CASE user_type = "contractor" -> 10
      [] user_type = "architect" -> 9
      [] user_type = "client" -> 7

\* 0.5 * verdict weight * role weight * (1 + (1 - c) or 1) * min(t / 1000, 2.0)
\* in 1/10^7, for a confidence c that is a multiple of 0.1 and a total t in
\* whole euros
StatedImpact(verdict, user_type, quote) ==
    LET confidence_term ==
            IF verdict \in {"rejected", "overpriced", "underpriced"}
            THEN (2 * ConfidenceOne - quote.confidence_score) \div 1000000
            ELSE 10
        value_term == Min(quote.total_estimate \div Euro, 2000)
    IN  5 * StatedVerdictWeight(verdict) * StatedRoleWeight(user_type)
          * confidence_term * value_term

\* C13: the impact score is the clamp to [0, 1] of 0.5 * verdict weight * role
\* weight * (1 + (1 - c) for rejected, overpriced and underpriced, else 1) *
\* min(t / 1000, 2.0); rejected with c = 0.9 and t = 2000 gives
\* clamp(1.1 * role weight); the result is always in [0, 1].
C13_ImpactScoreFormula ==
    ImpactAnswered =>
        /\ response.impact_score =
               Max(0, Min(ConfidenceOne,
                          StatedImpact(response.call.verdict, response.call.user_type,
                                       response.call.quote)))
        /\ response.impact_score \in 0..ConfidenceOne
        /\ (/\ response.call.verdict = "rejected"
            /\ response.call.quote = ImpactQuote(9 * (ConfidenceOne \div 10), 2000 * Euro))
               => response.impact_score =
                      Min(ConfidenceOne,
                          11 * StatedRoleWeight(response.call.user_type)
                             * (ConfidenceOne \div 100))

\* the scenario of C13 for an architect: 1.1 * 0.9 = 0.99, under the clamp
C13_Witness ==
    /\ ImpactAnswered
    /\ response.call.verdict = "rejected"
    /\ response.call.user_type = "architect"
    /\ response.call.quote = ImpactQuote(9 * (ConfidenceOne \div 10), 2000 * Euro)
    /\ response.impact_score = 9900000

InsightsAnswered == response.op = "generate_learning_insights"

\* no rule of the insight generator applies to the answered call: an accepted
\* quote of confidence at least 0.5 without region, no material feedback that
\* speaks of expense or quality, no pricing feedback, no comment with a keyword
NoInsightRule ==
    /\ response.call.verdict = "accepted"
    /\ response.call.quote.confidence_score >= 5 * (ConfidenceOne \div 10)
    /\ response.call.quote.region \in {None, Some("")}
    /\ response.call.material_feedback
           \in {None, Some(<<>>), Some(<< <<"tiles", "fine">> >>)}
    /\ response.call.pricing_feedback \in {None, Some(<<>>)}
    /\ response.call.comment \in {None, Some(""), Some("Thanks")}

\* C14: for every verdict, quote confidence, quote region, comment, material
\* feedback and pricing feedback, the list _generate_learning_insights returns
\* is not empty; when no rule triggers it is the single default "monitoring"
\* sentence.
C14_InsightsNeverEmpty ==
    InsightsAnswered =>
        /\ response.learning_insights # <<>>
        /\ NoInsightRule
               => response.learning_insights =
                      <<"Feedback received - monitoring for patterns">>

\* a call no rule applies to, with feedback present, got the default sentence
C14_Witness ==
    /\ InsightsAnswered
    /\ NoInsightRule
    /\ response.call.material_feedback = Some(<< <<"tiles", "fine">> >>)
    /\ response.call.comment = Some("Thanks")
    /\ Len(response.learning_insights) = 1

FeedbackAnswered == response.op = "process_feedback"

\* C15: processing feedback never changes the Quote it refers to.  Whether
\* the call succeeds or fails, the quotes, their Task rows and their
\* MaterialUsage rows are what they were before it; a successful call appends
\* one Feedback row and a failing call appends none.
C15_FeedbackLeavesQuoteAlone ==
    FeedbackAnswered =>
        /\ quotes = response.before[1]
        /\ tasks = response.before[2]
        /\ material_usage = response.before[3]
        /\ IF response.raised
           THEN feedback = response.before[4]
           ELSE /\ Len(feedback) = Len(response.before[4]) + 1
                /\ SubSeq(feedback, 1, Len(feedback) - 1) = response.before[4]

\* a second feedback, a rejection, has been committed on a stored quote
C15_Witness ==
    /\ FeedbackAnswered
    /\ ~response.raised
    /\ response.body.verdict = "rejected"
    /\ Len(feedback) = 2
    /\ \E i \in DOMAIN quotes : quotes[i].id = response.quote_id

\* C16: no feedback event changes a regional multiplier.  After any sequence
\* of process_feedback calls every RegionalPricing row is the seeded one and
\* _get_regional_multiplier gives, for every region, the seeded value.
C16_MultipliersUntouched ==
    /\ regional_pricing = SeedRegionalPricing
    /\ \A row \in regional_pricing :
           get_regional_multiplier(Some(row.region)) = row.multiplier

\* an overpriced verdict has been committed on a quote of a seeded region
C16_Witness ==
    \E i \in DOMAIN feedback, q \in DOMAIN quotes :
        /\ feedback[i].verdict = "overpriced"
        /\ quotes[q].id = feedback[i].quote_id
        /\ quotes[q].region = Some("Bretagne")

ExtractAnswered == response.op = "extract_materials_and_tasks"

\* the search the answered extraction made for its i-th keyword
KeywordSearch(i) ==
    search_materials(confidence_weights, materials,
                     extract_keywords(response.call.transcript)[i],
                     response.call.region, None, None, None, 3,
                     response.call.providerUp)

\* some per-keyword search of the answered extraction raised
ExtractionFailed ==
    \E i \in DOMAIN extract_keywords(response.call.transcript) : ~KeywordSearch(i).ok

\* C17: _extract_materials_and_tasks never raises to its caller.  It always
\* returns a list of tasks, and when a step fails the list is exactly one task
\* of type "general" with no materials and duration "1 day", whatever the
\* earlier keywords had found.
C17_ExtractorDegradesToGeneralTask ==
    ExtractAnswered =>
        /\ response.tasks # <<>>
        /\ ExtractionFailed
               => response.tasks =
                      << [type |-> "general", materials |-> <<>>, duration |-> "1 day"] >>

\* the search for a later keyword raised after the first one had found rows
C17_Witness ==
    /\ ExtractAnswered
    /\ extract_keywords(response.call.transcript) # <<>>
    /\ KeywordSearch(1).ok
    /\ KeywordSearch(1).results # <<>>
    /\ ExtractionFailed
    /\ Len(response.tasks) = 1
    /\ response.tasks[1].materials = <<>>

\* C18: a failure while pricing one task does not abort the proposal.  The
\* only failure generate_proposal raises is that of the commit; otherwise it
\* returns one Task per extracted task, the fixed fallback Task (generic label,
\* no materials, price 100.0, confidence 0.5) where pricing failed and the
\* normally priced Task elsewhere, and the quote and one Task row per task are
\* stored.
C18_FailedTaskFallsBack ==
    response.op = "generate_proposal" =>
        IF response.raised THEN response.error = "commit failed"
        ELSE LET proposal == response.proposal
                 extracted == response.extracted
             IN  /\ Len(proposal.tasks) = Len(extracted)
                 /\ \A i \in DOMAIN extracted :
                        IF i \in response.fails
                        THEN /\ proposal.tasks[i].label = "General " \o extracted[i].type
                             /\ proposal.tasks[i].materials = <<>>
                             /\ proposal.tasks[i].margin_protected_price = 100 * Euro
                             /\ 2 * proposal.tasks[i].confidence_score = ConfidenceOne
                        ELSE proposal.tasks[i] =
                                 calculate_task_pricing(extracted[i], proposal.region,
                                                        proposal.project_type, FALSE)
                 /\ proposal.quote_id \in QuoteIdsStored
                 /\ Cardinality({r \in DOMAIN tasks :
                                    tasks[r].quote_id = proposal.quote_id})
                        = Len(extracted)

\* of two extracted tasks the first failed and the second was priced with
\* its materials
C18_Witness ==
    /\ response.op = "generate_proposal"
    /\ ~response.raised
    /\ Len(response.extracted) = 2
    /\ response.fails = {1}
    /\ response.proposal.tasks[2].materials # <<>>
    /\ Len(tasks) = 2

\* a failure occurred during the answered call: it raised, or the
\* vendor-reliability update of a feedback failed
CallFailed ==
    \/ response.raised
    \/ response.op = "process_feedback" /\ response.learning_failed

\* C19: proposal and feedback writes are all-or-nothing within one request.
\* When a failure occurs during generate_proposal or process_feedback, a
\* failure inside the vendor-reliability update included, the tables are what
\* they were before the call; and every Task row and MaterialUsage row
\* belongs to a stored Quote.
C19_WritesAllOrNothing ==
    /\ response.op \in {"generate_proposal", "process_feedback"} /\ CallFailed
           => tables = response.before
    /\ \A i \in DOMAIN tasks : tasks[i].quote_id \in QuoteIdsStored
    /\ \A i \in DOMAIN material_usage : material_usage[i].quote_id \in QuoteIdsStored

\* the answered request fails a validation check the handler itself makes: a
\* blank query, a blank transcript, a missing quote id or a verdict outside
\* the five verdicts
FailsHandlerCheck ==
    CASE http.endpoint = "GET /material-price" -> Strip(http.request.query) = ""
      [] http.endpoint = "POST /generate-proposal" ->
             Strip(http.request.transcript) = ""
      [] http.endpoint = "POST /feedback" ->
             \/ http.request.quote_id = None
             \/ http.request.quote_id[1].text = ""
             \/ http.request.verdict \notin VerdictTypes
      [] OTHER -> FALSE

\* C20: a request that fails one of the handlers' own validation checks is
\* answered with status 400, and the core operation is not invoked for it.
C20_InvalidRequestGets400 ==
    FailsHandlerCheck => http.status_code = 400 /\ ~http.invoked

\* the keywords of the transcript of the returned proposal
ProposalKeywords == extract_keywords(response.proposal.transcript)

\* what the per-keyword searches of the returned proposal found
ProposalSearches(providerUp) ==
    SearchEach(confidence_weights, materials, ProposalKeywords,
               response.proposal.region, providerUp)

NoKeywords == ProposalKeywords = <<>>

NoMatchingCategory == identified_tasks(ProposalKeywords) = {}

\* every search succeeded and none returned a material
NoMaterialsFound ==
    \A providerUp \in BOOLEAN :
        ProposalSearches(providerUp).ok /\ ProposalSearches(providerUp).results = <<>>

\* a per-keyword search raised, whether the provider was up or not
ProposalExtractionFailed == \A providerUp \in BOOLEAN : ~ProposalSearches(providerUp).ok

\* the proposal was built from the single task of type "general"
SingleGeneralTask ==
    /\ Len(response.extracted) = 1
    /\ response.extracted[1].type = "general"
    /\ Len(response.proposal.tasks) = 1

\* C21 as stated: every proposal generate_proposal returns contains at least
\* one task, and no keywords, no matching category, no materials found and an
\* extraction failure each yield the single "general" task.
C21_AtLeastOneTaskGeneralInEveryCase ==
    ProposalReturned =>
        /\ Len(response.proposal.tasks) >= 1
        /\ (NoKeywords \/ NoMatchingCategory \/ NoMaterialsFound
                \/ ProposalExtractionFailed) => SingleGeneralTask

\* C21: every proposal generate_proposal returns contains at least one task,
\* for every transcript and every materials table.  No keywords, no matching
\* category and an extraction failure each yield the single "general" task;
\* when no material is found and a keyword matches a category, the proposal
\* holds one task without materials for each matched category instead.
C21_AtLeastOneTask ==
    ProposalReturned =>
        /\ Len(response.proposal.tasks) >= 1
        /\ (NoKeywords \/ NoMatchingCategory \/ ProposalExtractionFailed)
               => SingleGeneralTask
        /\ (NoMaterialsFound /\ ~NoMatchingCategory)
               => /\ Len(response.proposal.tasks)
                         = Cardinality(identified_tasks(ProposalKeywords))
                  /\ \A i \in DOMAIN response.extracted :
                         /\ response.extracted[i].type
                                \in identified_tasks(ProposalKeywords)
                         /\ response.extracted[i].materials = <<>>
                         /\ response.proposal.tasks[i].materials = <<>>

\* a proposal for a transcript that names a category, on an empty materials
\* table: one task, of that category
C21_Witness ==
    /\ ProposalReturned
    /\ NoMaterialsFound
    /\ ~NoMatchingCategory
    /\ Len(response.proposal.tasks) = 1
    /\ response.extracted[1].type = "tiling"

\* C22: when the embedding provider fails, search_materials does not raise
\* because of it: get_embedding returns the zero vector of the configured
\* length, a search raises only for a fetched row its response model rejects,
\* and the similarity of every returned candidate is its text similarity
\* (keywords and substrings), not a value computed from the zero vector.
C22_ProviderFailureFallsBackToText ==
    (SearchAnswered /\ ~response.call.providerUp) =>
        /\ get_embedding(response.call.query, FALSE) = ZeroVector
        /\ Len(ZeroVector) = vector_dimensions
        /\ response.result.ok
               \/ \E i \in Fetched : ~ValidMaterialPriceResponse(materials[i])
        /\ \A k \in DOMAIN response.result.ranked :
               response.result.ranked[k].similarity_score
                   = Max(0, Min(100,
                         text_similarity(response.call.query,
                                         response.result.ranked[k].material.material_name,
                                         response.result.ranked[k].material.description)))

\* the confidence score the Confidence Engine gave a returned material when it
\* was ranked (1/10000): that of its row of the materials table, for the
\* similarity it was returned with and the region of the request
EngineConfidence(item) ==
    LET row == CHOOSE m \in Range(materials) : m.material_name = item.material_name
    IN  calculate_confidence_score(confidence_weights, row, item.similarity_score,
                                   response.proposal.region)

\* the per-category constant as stated, in percent
StatedCategoryConfidence(task_type) ==
    CASE task_type = "tiling" -> 80
      [] task_type = "painting" -> 90
      [] task_type = "plumbing" -> 70
      [] task_type = "electrical" -> 60
      [] task_type = "carpentry" -> 70
      [] task_type = "general" -> 50

\* C23: the confidence of every priced task with at least one material is
\* 0.7 * the mean of the Confidence-Engine confidence scores its materials
\* received in ranking + 0.3 * the constant of its category; with no
\* materials it is 0.3; and it is always in [0, 1].
C23_TaskConfidenceFromEngineScores ==
    ProposalReturned =>
        \A i \in DOMAIN response.extracted :
            i \notin response.fails =>
                LET found == response.extracted[i].materials
                    confidence == response.proposal.tasks[i].confidence_score
                IN  /\ 0 <= confidence /\ confidence <= ConfidenceOne
                    /\ IF found = <<>> THEN confidence = 3 * (ConfidenceOne \div 10)
                       ELSE confidence =
                                7 * ((SumSeq([k \in DOMAIN found |->
                                                 EngineConfidence(found[k])]) * 100)
                                         \div Len(found))
                                + 3 * StatedCategoryConfidence(response.extracted[i].type)
                                    * 10000

\* the base of each category as stated, in days
StatedBaseDays(task_type) ==
    CASE task_type \in {"tiling", "carpentry"} -> 2
      [] task_type \in {"painting", "plumbing", "electrical", "general"} -> 1

DaysText(days) ==
    CASE days = 1 -> "1 day"
      [] days = 2 -> "2 days"
      [] days = 3 -> "3 days"

\* C24: every task the extractor produces, of every category and the
\* "general" fallback too, has the base duration of its category when it
\* holds at most 5 materials and the base plus one day when it holds more.
C24_DurationBumpedAboveFiveMaterials ==
    ExtractAnswered =>
        \A i \in DOMAIN response.tasks :
            response.tasks[i].duration =
                DaysText(StatedBaseDays(response.tasks[i].type)
                             + (IF Len(response.tasks[i].materials) > 5 THEN 1 ELSE 0))

\* the materials the answered extraction accumulated over its keywords
Accumulated ==
    SearchEach(confidence_weights, materials,
               extract_keywords(response.call.transcript), response.call.region,
               response.call.providerUp).results

\* category c is named by the transcript: a keyword of its classification
\* family is contained in an extracted keyword
Named(c) ==
    \E i \in DOMAIN extract_keywords(response.call.transcript) :
        \E k \in classification_keywords(c) :
            IsSubstring(k, Lower(extract_keywords(response.call.transcript)[i]))

\* material m belongs to category c: its name and description contain a
\* keyword of the material list of c
InCategory(m, c) ==
    \E k \in material_keywords(c) :
        IsSubstring(k, Lower(m.material_name \o " " \o m.description))

\* C25: _identify_tasks returns at most one task per category; a category
\* among the five is included exactly when it is named by an extracted
\* keyword; an included task holds exactly the accumulated materials,
\* duplicates kept and in their order, that belong to its category; and the
\* "general" task, holding all accumulated materials, is returned exactly
\* when no category is included.
C25_TasksByCategory ==
    (ExtractAnswered /\ ~ExtractionFailed) =>
        \A found \in {Accumulated} :
            /\ \A i, j \in DOMAIN response.tasks :
                   response.tasks[i].type = response.tasks[j].type => i = j
            /\ \A c \in Range(TaskTypes) :
                   Named(c) <=> \E i \in DOMAIN response.tasks : response.tasks[i].type = c
            /\ \A i \in DOMAIN response.tasks :
                   response.tasks[i].type \in Range(TaskTypes) =>
                       response.tasks[i].materials
                           = SelectSeq(found,
                                       LAMBDA m : InCategory(m, response.tasks[i].type))
            /\ (\E i \in DOMAIN response.tasks : response.tasks[i].type = "general")
                   <=> \A c \in Range(TaskTypes) : ~Named(c)
            /\ \A i \in DOMAIN response.tasks :
                   response.tasks[i].type = "general" => response.tasks[i].materials = found
            /\ \A i \in DOMAIN response.tasks :
                   response.tasks[i].type \in Range(TaskTypes) \cup {"general"}

\* two categories named, a material found twice kept twice in one task, and
\* a found material of the classification list but not of the material list
\* left out of the tiling task
C25_Witness ==
    /\ ExtractAnswered
    /\ ~ExtractionFailed
    /\ Len(response.tasks) = 2
    /\ \E i \in DOMAIN response.tasks :
           /\ response.tasks[i].type = "tiling"
           /\ \E a, b \in DOMAIN response.tasks[i].materials :
                  a # b /\ response.tasks[i].materials[a] = response.tasks[i].materials[b]
           /\ \E k \in DOMAIN Accumulated :
                  /\ IsSubstring("wall", Lower(Accumulated[k].material_name))
                  /\ \A a \in DOMAIN response.tasks[i].materials :
                         response.tasks[i].materials[a] # Accumulated[k]

\* the regional sub-score as stated, in percent
StatedRegional(region, material_region) ==
    IF region = None \/ region = Some("") \/ material_region = "" THEN 0
    ELSE LET requested == Lower(region[1])
             stored == Lower(material_region)
         IN  CASE requested = stored -> 100
               [] requested # stored
                      /\ (IsSubstring(requested, stored) \/ IsSubstring(stored, requested))
                    -> 70
               [] OTHER -> 0

\* the price sub-score as stated, in percent; 0.1 is 10 cents
StatedPrice(unit_price) ==
    CASE unit_price \in 10..100000 -> 100
      [] unit_price \in (1..9) \cup (100001..1000000) -> 70
      [] OTHER -> 30

\* the vendor sub-score as stated, in percent: the score of the first name
\* of the static table that the vendor string contains
StatedVendor(vendor) ==
    LET Has(name) == vendor # None /\ IsSubstring(name, Lower(vendor[1]))
    IN  CASE Has("leroy merlin") -> 90
          [] ~Has("leroy merlin") /\ Has("castorama") -> 85
          [] ~Has("leroy merlin") /\ ~Has("castorama") /\ Has("brico depot") -> 80
          [] ~Has("leroy merlin") /\ ~Has("castorama") /\ ~Has("brico depot")
                 /\ Has("weldom") -> 75
          [] OTHER -> 50

ProposalServed ==
    /\ http.endpoint = "POST /generate-proposal"
    /\ http.status_code = 200
    /\ ProposalReturned

\* the VAT rate the project type of a request selects, as stated (twentieths)
StatedVat(project_type) ==
    IF project_type # None /\ IsSubstring("new", Lower(project_type[1]))
    THEN 4 ELSE 2

\* the multiplier configured for exactly the region of a request, 1.0 when
\* the region is unset or unknown (twentieths)
StatedMultiplier(region) ==
    IF region # None /\ region[1] \in DOMAIN regional_multipliers
    THEN regional_multipliers[region[1]] ELSE RateScale

\* C27: the proposal POST /generate-proposal returns is priced with the
\* parameters the request's own project_type and region select: vat_rate is
\* 0.20 when the project type contains "new" and 0.10 otherwise, the
\* material and labor cost of every priced task are multiplied by the
\* multiplier of the request's region, and the proposal echoes the region
\* and the project type of the request.
C27_RequestSelectsVatAndRegion ==
    ProposalServed =>
        LET proposal == response.proposal
            m == StatedMultiplier(http.request.region)
        IN  /\ proposal.vat_rate = StatedVat(http.request.project_type)
            /\ proposal.region = http.request.region
            /\ proposal.project_type = http.request.project_type
            /\ \A i \in DOMAIN proposal.tasks :
                   i \notin response.fails =>
                       /\ proposal.tasks[i].labor_cost
                              = calculate_labor_cost(response.extracted[i].type,
                                                     response.extracted[i].duration) * m
                       /\ proposal.tasks[i].margin_protected_price
                              = (task_materials_cost(proposal.tasks[i]) * m
                                     + proposal.tasks[i].labor_cost) * margin_factor

\* the stored embedding of row m cannot be compared with query vector q:
\* not parseable, of another length, or of norm zero
Degraded(m, q) ==
    /\ m.embedding # None
    /\ \/ ~m.embedding[1].valid
       \/ Len(m.embedding[1].vector) # Len(q)
       \/ \A i \in DOMAIN m.embedding[1].vector : m.embedding[1].vector[i] = 0

\* the cosine of two vectors of one length and of norm above zero, in percent
StatedCosine(q, v) ==
    (SumSeq([i \in DOMAIN q |-> q[i] * v[i]]) * 100) \div (Norm(q) * Norm(v))

\* C28: no error of similarity scoring reaches the caller of search_materials.
\* A search raises only for a fetched row its response model rejects; every
\* fetched candidate is ranked; a candidate whose stored embedding is
\* malformed (not parseable, or of another length than the query vector) or
\* of norm zero has similarity 0.0; the other candidates have their cosine or
\* text similarity; and every similarity is in [0, 1].
C28_ScoringErrorsDegradeToZero ==
    SearchAnswered =>
        \A q \in {get_embedding(response.call.query, response.call.providerUp)} :
            /\ response.result.ok
                   \/ \E i \in Fetched : ~ValidMaterialPriceResponse(materials[i])
            /\ response.result.ok
                   => Len(response.result.ranked)
                          = Min(response.call.limit, Cardinality(Fetched))
            /\ \A k \in DOMAIN response.result.ranked :
                   LET m == response.result.ranked[k].material
                       similarity == response.result.ranked[k].similarity_score
                   IN  /\ 0 <= similarity /\ similarity <= 100
                       /\ Degraded(m, q) => similarity = 0
                       /\ (m.embedding # None /\ ~Degraded(m, q))
                              => similarity =
                                     IF q = ZeroVector THEN 0
                                     ELSE Max(0, Min(100,
                                              StatedCosine(q, m.embedding[1].vector)))
                       /\ m.embedding = None
                              => similarity =
                                     text_similarity(response.call.query, m.material_name,
                                                     m.description)

\* a ranking of three: a row whose embedding is too short and whose text
\* matches the query, scored 0.0, with a row scored by its cosine
C28_Witness ==
    /\ SearchAnswered
    /\ response.result.ok
    /\ response.call.providerUp
    /\ response.call.query = "white paint"
    /\ \E a, b \in DOMAIN response.result.ranked :
           /\ response.result.ranked[a].material = WhitePaintPrimer
           /\ response.result.ranked[a].similarity_score = 0
           /\ response.result.ranked[b].material = WallPaint
           /\ response.result.ranked[b].similarity_score = 100
    /\ \E c \in DOMAIN materials : materials[c] \in {TilesSealant, FloorTiles}

\* every record of the store is consistent: the accepted quotes are among the
\* total, the score is accepted / total, and the default 0.5 without history
VendorRecordsConsistent ==
    \A r \in DOMAIN vendor_reliability :
        LET record == vendor_reliability[r]
        IN  /\ 0 <= record.accepted_quotes
            /\ record.accepted_quotes <= record.total_quotes
            /\ IF record.total_quotes > 0
               THEN /\ record.reliability_score[2] # 0
                    /\ record.reliability_score[1] * record.total_quotes
                           = record.accepted_quotes * record.reliability_score[2]
               ELSE record.reliability_score = <<1, 2>>

\* no record disappears and no counter of a record decreases in a step
VendorCountsNeverDecrease ==
    \A r \in DOMAIN vendor_reliability :
        \E n \in DOMAIN vendor_reliability' :
            /\ vendor_reliability'[n].vendor_name = vendor_reliability[r].vendor_name
            /\ vendor_reliability'[n].total_quotes >= vendor_reliability[r].total_quotes
            /\ vendor_reliability'[n].accepted_quotes
                   >= vendor_reliability[r].accepted_quotes

\* C29: in every reachable state every VendorReliability record has
\* 0 <= accepted_quotes <= total_quotes, reliability_score =
\* accepted_quotes / total_quotes when total_quotes > 0 and the default 0.5
\* when total_quotes = 0, a record created by the first update of its vendor
\* included; and no step decreases total_quotes or accepted_quotes.
C29_VendorRecordsConsistent ==
    [](VendorRecordsConsistent) /\ [][VendorCountsNeverDecrease]_vars

\* a record updated twice, one update accepted, next to a record created by
\* the first update of its vendor
C29_Witness ==
    \E a, b \in DOMAIN vendor_reliability :
        /\ vendor_reliability[a].total_quotes = 2
        /\ vendor_reliability[a].accepted_quotes = 1
        /\ vendor_reliability[a].reliability_score = <<1, 2>>
        /\ vendor_reliability[b].total_quotes = 0
        /\ a # b

\* C30: the ranking does not depend on the feedback history.  A search
\* answered after the persisted VendorReliability records have changed
\* returns what the same search returned before the change: the same
\* materials in the same order with the same similarity and confidence.
C30_RankingIgnoresFeedbackHistory ==
    [][(SearchAnswered /\ SearchAnswered' /\ response'.call = response.call)
           => response'.result = response.result]_vars

\* a search answered with a material of a vendor whose persisted record has a
\* history of rejections only, the static table giving the vendor 0.9
C30_Witness ==
    /\ SearchAnswered
    /\ \E r \in DOMAIN vendor_reliability :
           /\ vendor_reliability[r].vendor_name = "Leroy Merlin"
           /\ vendor_reliability[r].total_quotes = MaxVendorQuotes
           /\ vendor_reliability[r].accepted_quotes = 0
    /\ \E k \in DOMAIN response.result.ranked :
           /\ response.result.ranked[k].material.vendor = Some("Leroy Merlin")
           /\ get_vendor_reliability(response.result.ranked[k].material.vendor) = 90

====
